---- MODULE Spec2Model ----
(***************************************************************************)
(* Rule engine of the JOJ card game (src/src/game/jojGame.ts): effect      *)
(* resolution (strict / soft / planner), rank promotion, win detection     *)
(* and the turn state machine driven by the boardgame.io move API.         *)
(***************************************************************************)
EXTENDS Integers, Sequences, FiniteSets, TLC

VARIABLES deck, discard, legendaryDeck, hands, ranks, resources,
          promotedThisTurn, currentPlayer, activePlayers, gameover,
          last, fx, sharedRanks

G == [deck |-> deck, discard |-> discard, hands |-> hands, ranks |-> ranks,
      resources |-> resources, promotedThisTurn |-> promotedThisTurn]

matchVars == <<deck, discard, legendaryDeck, hands, ranks, resources,
               promotedThisTurn, currentPlayer, activePlayers, gameover>>

vars == <<deck, discard, legendaryDeck, hands, ranks, resources,
          promotedThisTurn, currentPlayer, activePlayers, gameover, last, fx, sharedRanks>>

----------------------------------------------------------------------------
(* Program constants *)

INVALID_MOVE == "INVALID_MOVE"
STARTING_HAND_SIZE == 5
HAND_LIMIT == 8
DRAW_STAGE == "draw"
PLAY_STAGE == "play"
END_STAGE == "end"
IDLE_STAGE == "idle"

resourceKeys == <<"time", "reputation", "discipline", "documents", "tech">>

Keys == {resourceKeys[i] : i \in 1..Len(resourceKeys)}

(* a sparse Partial<Record<ResourceKey, number>>, read with `?? 0` *)
Vec(t, r, d, doc, te) ==
  [k \in Keys |-> CASE k = "time" -> t
                    [] k = "reputation" -> r
                    [] k = "discipline" -> d
                    [] k = "documents" -> doc
                    [] OTHER -> te]

baseRanks ==
  << [id |-> "cadet",   requirement |-> Vec(0, 0, 0, 0, 0), cost |-> Vec(0, 0, 0, 0, 0), bonus |-> Vec(0, 0, 0, 0, 0)],
     [id |-> "captain", requirement |-> Vec(0, 3, 3, 0, 0), cost |-> Vec(1, 0, 0, 0, 0), bonus |-> Vec(0, 0, 0, 0, 0)],
     [id |-> "colonel", requirement |-> Vec(0, 5, 5, 3, 0), cost |-> Vec(2, 0, 0, 0, 1), bonus |-> Vec(0, 0, 0, 0, 0)],
     [id |-> "general", requirement |-> Vec(0, 8, 8, 5, 4), cost |-> Vec(3, 0, 0, 0, 0), bonus |-> Vec(0, 0, 0, 0, 0)] >>

(* sharedRanks is the ladder of the module (let sharedRanks), read anew by *)
(* every call of getActiveRanks                                           *)
getActiveRanks == sharedRanks

getTopRankId == getActiveRanks[Len(getActiveRanks)].id

Max(a, b) == IF a >= b THEN a ELSE b

Min(a, b) == IF a <= b THEN a ELSE b

(* Array.prototype.findIndex on the ladder: 0-based, -1 when absent *)
findRankIndex(ladder, rankId) ==
  IF \E i \in 1..Len(ladder) : ladder[i].id = rankId
    THEN (CHOOSE i \in 1..Len(ladder) :
            /\ ladder[i].id = rankId
            /\ \A j \in 1..(i - 1) : ladder[j].id # rankId) - 1
    ELSE -1

RECURSIVE SumKeys(_, _)
SumKeys(v, i) == IF i > Len(resourceKeys) THEN 0 ELSE v[resourceKeys[i]] + SumKeys(v, i + 1)

ResourceSum(v) == SumKeys(v, 1)

----------------------------------------------------------------------------
(* Resource helpers *)

(* hasResources asking for more than the amount named *)
hasResources_strictlyMore(res, cost) == \A k \in Keys : res[k] > cost[k]

hasResources(res, cost) == \A k \in Keys : res[k] >= cost[k]

spendResources(res, cost) ==
  [k \in Keys |-> IF Max(0, cost[k]) > 0 THEN res[k] - Max(0, cost[k]) ELSE res[k]]

applyResourceDelta(res, delta) == [k \in Keys |-> res[k] + delta[k]]

clampNonNegativeResources(res) == [k \in Keys |-> IF res[k] < 0 THEN 0 ELSE res[k]]

----------------------------------------------------------------------------
(* Effect resolution engine *)

RECURSIVE CostWalk(_, _, _, _)
CostWalk(virtual, effects, i, needed) ==
  IF i > Len(effects) THEN needed
  ELSE LET e == effects[i] IN
    IF e.resource = "rank" THEN CostWalk(virtual, effects, i + 1, needed)
    ELSE IF e.value >= 0
      THEN CostWalk([virtual EXCEPT ![e.resource] = @ + e.value], effects, i + 1, needed)
      ELSE LET required0 == -e.value
               available == Max(0, virtual[e.resource])
               direct == Min(available, required0)
               required == required0 - direct
           IN CostWalk([virtual EXCEPT ![e.resource] = @ - direct], effects, i + 1,
                       IF required > 0 THEN needed + required * 2 ELSE needed)

replacementCostUnits(res, effects) ==
  IF Len(effects) = 0 THEN 0 ELSE CostWalk(res, effects, 1, 0)

getReplacementUnitsForCard(res, card) == replacementCostUnits(res, card.effects)

(* the pick of the planner not asking for a positive balance *)
PlannerPick_anyBalance(virtual) ==
  LET best == CHOOSE i \in 1..Len(resourceKeys) :
                /\ \A j \in 1..Len(resourceKeys) : virtual[resourceKeys[j]] <= virtual[resourceKeys[i]]
                /\ \A j \in 1..(i - 1) : virtual[resourceKeys[j]] < virtual[resourceKeys[i]]
  IN resourceKeys[best]

(* the pick of the planner with equal balances resolved by the last key *)
PlannerPick_lastOnTies(virtual) ==
  LET best == CHOOSE i \in 1..Len(resourceKeys) :
                /\ \A j \in 1..Len(resourceKeys) : virtual[resourceKeys[j]] <= virtual[resourceKeys[i]]
                /\ \A j \in (i + 1)..Len(resourceKeys) : virtual[resourceKeys[j]] < virtual[resourceKeys[i]]
  IN IF virtual[resourceKeys[best]] > 0 THEN resourceKeys[best] ELSE "none"

(* [...resourceKeys].sort((a, b) => virtual[b] - virtual[a]).find(v > 0):  *)
(* the stable sort keeps resourceKeys order among equal balances           *)
PlannerPick(virtual) ==
  LET best == CHOOSE i \in 1..Len(resourceKeys) :
                /\ \A j \in 1..Len(resourceKeys) : virtual[resourceKeys[j]] <= virtual[resourceKeys[i]]
                /\ \A j \in 1..(i - 1) : virtual[resourceKeys[j]] < virtual[resourceKeys[i]]
  IN IF virtual[resourceKeys[best]] > 0 THEN resourceKeys[best] ELSE "none"

RECURSIVE PlanPicks(_, _)
PlanPicks(st, n) ==
  IF n = 0 \/ ~st.ok THEN st
  ELSE LET pick == PlannerPick(st.virtual) IN
    IF pick = "none" THEN [st EXCEPT !.ok = FALSE]
    ELSE PlanPicks([st EXCEPT !.virtual[pick] = @ - 1,
                              !.list = Append(@, pick)], n - 1)

RECURSIVE PlanWalk(_, _, _)
PlanWalk(st, effects, i) ==
  IF i > Len(effects) \/ ~st.ok THEN st
  ELSE LET e == effects[i] IN
    IF e.resource = "rank" \/ e.value >= 0 THEN PlanWalk(st, effects, i + 1)
    ELSE LET required0 == -e.value
             available == Max(0, st.virtual[e.resource])
             direct == Min(available, required0)
             required == required0 - direct
         IN PlanWalk(PlanPicks([st EXCEPT !.virtual[e.resource] = @ - direct], 2 * required),
                     effects, i + 1)

(* ok = FALSE stands for the null result *)
planReplacementResources(res, effects) ==
  IF Len(effects) = 0 THEN [ok |-> TRUE, list |-> <<>>]
  ELSE LET st == PlanWalk([ok |-> TRUE, virtual |-> res, list |-> <<>>], effects, 1)
       IN [ok |-> st.ok, list |-> IF st.ok THEN st.list ELSE <<>>]

buildReplacementPlan(res, effects) == planReplacementResources(res, effects)

(* shiftRank without the lower clamp: an index below 0 names no rank *)
shiftRank_noLowerClamp(rankId, delta) ==
  IF delta = 0 THEN rankId
  ELSE LET ladder == getActiveRanks
           currentRankIdx == Max(0, findRankIndex(ladder, rankId))
           nextIdx == Min(Len(ladder) - 1, currentRankIdx + delta)
       IN IF nextIdx < 0 THEN "undefined" ELSE ladder[nextIdx + 1].id

shiftRank(rankId, delta) ==
  IF delta = 0 THEN rankId
  ELSE LET ladder == getActiveRanks
           currentRankIdx == Max(0, findRankIndex(ladder, rankId))
           nextIdx == Max(0, Min(Len(ladder) - 1, currentRankIdx + delta))
       IN ladder[nextIdx + 1].id

RECURSIVE ShiftAll(_, _, _)
ShiftAll(rankId, effects, i) ==
  IF i > Len(effects) THEN rankId
  ELSE ShiftAll(IF effects[i].resource = "rank" THEN shiftRank(rankId, effects[i].value) ELSE rankId,
                effects, i + 1)

(* ConsumeReplacements without the balance check on the named resource *)
RECURSIVE ConsumeReplacements_noBalanceCheck(_, _, _)
ConsumeReplacements_noBalanceCheck(st, repl, n) ==
  IF n = 0 \/ st.threw THEN st
  ELSE LET missing == st.idx + 1 > Len(repl)
           st1 == [st EXCEPT !.idx = @ + 1]
       IN IF missing THEN [st1 EXCEPT !.threw = TRUE, !.cause = "missing"]
          ELSE ConsumeReplacements_noBalanceCheck([st1 EXCEPT !.res[repl[st.idx + 1]] = @ - 1], repl, n - 1)

(* the inner while/for loops of applyCardEffects: n reads of the list, each *)
(* read advances replacementIndex before the entry is checked               *)
RECURSIVE ConsumeReplacements(_, _, _)
ConsumeReplacements(st, repl, n) ==
  IF n = 0 \/ st.threw THEN st
  ELSE LET missing == st.idx + 1 > Len(repl)
           st1 == [st EXCEPT !.idx = @ + 1]
       IN IF missing THEN [st1 EXCEPT !.threw = TRUE, !.cause = "missing"]
          ELSE IF st.res[repl[st.idx + 1]] <= 0 THEN [st1 EXCEPT !.threw = TRUE, !.cause = "empty"]
          ELSE ConsumeReplacements([st1 EXCEPT !.res[repl[st.idx + 1]] = @ - 1], repl, n - 1)

RECURSIVE StrictWalk(_, _, _, _)
StrictWalk(st, effects, repl, i) ==
  IF i > Len(effects) \/ st.threw THEN st
  ELSE LET e == effects[i] IN
    IF e.resource = "rank" THEN StrictWalk(st, effects, repl, i + 1)
    ELSE IF e.value < 0
      THEN LET required0 == -e.value
               available == Max(0, st.res[e.resource])
               direct == Min(available, required0)
               required == required0 - direct
           IN StrictWalk(ConsumeReplacements([st EXCEPT !.res[e.resource] = @ - direct],
                                             repl, 2 * required),
                         effects, repl, i + 1)
      ELSE StrictWalk([st EXCEPT !.res[e.resource] = @ + e.value], effects, repl, i + 1)

(* applyCardEffects rejecting only lists that are too short *)
applyCardEffects_lengthLess(res, rankId, effects, repl) ==
  IF Len(effects) = 0
    THEN [ok |-> TRUE, threw |-> FALSE, cause |-> "none", resources |-> res, rank |-> rankId, idx |-> 0]
  ELSE IF Len(repl) < replacementCostUnits(res, effects)
    THEN [ok |-> FALSE, threw |-> FALSE, cause |-> "length", resources |-> res, rank |-> rankId, idx |-> 0]
  ELSE LET st == StrictWalk([res |-> res, idx |-> 0, threw |-> FALSE, cause |-> "none"], effects, repl, 1)
       IN IF st.threw
            THEN [ok |-> FALSE, threw |-> TRUE, cause |-> st.cause, resources |-> st.res,
                  rank |-> rankId, idx |-> st.idx]
            ELSE [ok |-> TRUE, threw |-> FALSE, cause |-> "none",
                  resources |-> clampNonNegativeResources(st.res),
                  rank |-> ShiftAll(rankId, effects, 1), idx |-> st.idx]

(* ok: returned true; threw: INVALID_REPLACEMENT was thrown, resources hold *)
(* whatever the in-place walk had written; neither: returned false.         *)
applyCardEffects(res, rankId, effects, repl) ==
  IF Len(effects) = 0
    THEN [ok |-> TRUE, threw |-> FALSE, cause |-> "none", resources |-> res, rank |-> rankId, idx |-> 0]
  ELSE IF Len(repl) # replacementCostUnits(res, effects)
    THEN [ok |-> FALSE, threw |-> FALSE, cause |-> "length", resources |-> res, rank |-> rankId, idx |-> 0]
  ELSE LET st == StrictWalk([res |-> res, idx |-> 0, threw |-> FALSE, cause |-> "none"], effects, repl, 1)
       IN IF st.threw
            THEN [ok |-> FALSE, threw |-> TRUE, cause |-> st.cause, resources |-> st.res,
                  rank |-> rankId, idx |-> st.idx]
            ELSE [ok |-> TRUE, threw |-> FALSE, cause |-> "none",
                  resources |-> clampNonNegativeResources(st.res),
                  rank |-> ShiftAll(rankId, effects, 1), idx |-> st.idx]

ZeroVec == [k \in Keys |-> 0]

summarizeAppliedDiff(beforeResources, afterResources, beforeRankId, afterRankId) ==
  LET from == findRankIndex(getActiveRanks, beforeRankId)
      to == findRankIndex(getActiveRanks, afterRankId)
  IN [resources |-> [k \in Keys |-> afterResources[k] - beforeResources[k]],
      rank |-> IF from >= 0 /\ to >= 0 THEN to - from ELSE 0]

(* the clamping fallback taking what a loss could not get from reputation *)
RECURSIVE SoftFallback_shortageCharged(_, _, _)
SoftFallback_shortageCharged(st, effects, i) ==
  IF i > Len(effects) THEN st
  ELSE LET e == effects[i] IN
    IF e.resource = "rank" THEN SoftFallback_shortageCharged(st, effects, i + 1)
    ELSE IF e.value < 0
      THEN LET next == Max(0, st.res[e.resource] + e.value)
               delta == next - st.res[e.resource]
               short == Max(0, -(st.res[e.resource] + e.value))
               paid == [st.res EXCEPT ![e.resource] = next]
           IN SoftFallback_shortageCharged(
                [res |-> [paid EXCEPT !["reputation"] = Max(0, @ - short)],
                 sum |-> [st.sum EXCEPT ![e.resource] = @ + delta]], effects, i + 1)
      ELSE SoftFallback_shortageCharged([res |-> [st.res EXCEPT ![e.resource] = @ + e.value],
                         sum |-> [st.sum EXCEPT ![e.resource] = @ + e.value]], effects, i + 1)

RECURSIVE SoftFallback(_, _, _)
SoftFallback(st, effects, i) ==
  IF i > Len(effects) THEN st
  ELSE LET e == effects[i] IN
    IF e.resource = "rank" THEN SoftFallback(st, effects, i + 1)
    ELSE IF e.value < 0
      THEN LET next == Max(0, st.res[e.resource] + e.value)
               delta == next - st.res[e.resource]
           IN SoftFallback([res |-> [st.res EXCEPT ![e.resource] = next],
                            sum |-> [st.sum EXCEPT ![e.resource] = @ + delta]], effects, i + 1)
      ELSE SoftFallback([res |-> [st.res EXCEPT ![e.resource] = @ + e.value],
                         sum |-> [st.sum EXCEPT ![e.resource] = @ + e.value]], effects, i + 1)

RECURSIVE SumRankEffects(_, _)
SumRankEffects(effects, i) ==
  IF i > Len(effects) THEN 0
  ELSE (IF effects[i].resource = "rank" THEN effects[i].value ELSE 0) + SumRankEffects(effects, i + 1)

RECURSIVE RawDeltas(_, _, _)
RawDeltas(res, effects, i) ==
  IF i > Len(effects) THEN res
  ELSE RawDeltas(IF effects[i].resource = "rank" THEN res
                 ELSE [res EXCEPT ![effects[i].resource] = @ + effects[i].value], effects, i + 1)

(* applyCardEffectsSoft whose fallback adds the nominal values unclamped *)
applyCardEffectsSoft_noClamp(res, rankId, effects) ==
  IF Len(effects) = 0
    THEN [resources |-> res, rank |-> rankId, path |-> "empty", start |-> res,
          summary |-> [resources |-> ZeroVec, rank |-> 0]]
  ELSE LET replacements == planReplacementResources(res, effects)
           strict == IF replacements.ok
                       THEN applyCardEffects(res, rankId, effects, replacements.list)
                       ELSE [ok |-> FALSE, threw |-> FALSE, cause |-> "noplan", resources |-> res,
                             rank |-> rankId, idx |-> 0]
       IN IF strict.ok
            THEN [resources |-> strict.resources, rank |-> strict.rank, path |-> "strict", start |-> res,
                  summary |-> summarizeAppliedDiff(res, strict.resources, rankId, strict.rank)]
            ELSE [resources |-> RawDeltas(strict.resources, effects, 1),
                  rank |-> ShiftAll(rankId, effects, 1),
                  path |-> "fallback", start |-> strict.resources,
                  summary |-> [resources |-> ZeroVec, rank |-> SumRankEffects(effects, 1)]]

(* path: which branch produced the result; start: the resources the clamping *)
(* fallback started from (they differ from res when a throwing strict attempt *)
(* had already written to them)                                               *)
applyCardEffectsSoft(res, rankId, effects) ==
  IF Len(effects) = 0
    THEN [resources |-> res, rank |-> rankId, path |-> "empty", start |-> res,
          summary |-> [resources |-> ZeroVec, rank |-> 0]]
  ELSE LET replacements == planReplacementResources(res, effects)
           strict == IF replacements.ok
                       THEN applyCardEffects(res, rankId, effects, replacements.list)
                       ELSE [ok |-> FALSE, threw |-> FALSE, cause |-> "noplan", resources |-> res,
                             rank |-> rankId, idx |-> 0]
       IN IF strict.ok
            THEN [resources |-> strict.resources, rank |-> strict.rank, path |-> "strict", start |-> res,
                  summary |-> summarizeAppliedDiff(res, strict.resources, rankId, strict.rank)]
            ELSE LET fb == SoftFallback([res |-> strict.resources, sum |-> ZeroVec], effects, 1)
                 IN [resources |-> clampNonNegativeResources(fb.res),
                     rank |-> ShiftAll(rankId, effects, 1),
                     path |-> "fallback", start |-> strict.resources,
                     summary |-> [resources |-> fb.sum, rank |-> SumRankEffects(effects, 1)]]

----------------------------------------------------------------------------
(* Rank promotion and win detection.  Gd is the match state a move works on: *)
(* [deck, discard, hands, ranks, resources, promotedThisTurn].               *)

(* rankSeatLimit giving a table of two the second seat of a rank *)
rankSeatLimit_twoSeatsForTwo(playerCount) ==
  IF playerCount < 2 THEN 1 ELSE IF playerCount <= 4 THEN 2 ELSE 3

rankSeatLimit(playerCount) ==
  IF playerCount <= 2 THEN 1 ELSE IF playerCount <= 4 THEN 2 ELSE 3

promoteRank(Gd, playerID, playerCount) ==
  LET ladder == getActiveRanks
      currentRankIdx == Max(0, findRankIndex(ladder, Gd.ranks[playerID]))
  IN IF currentRankIdx + 2 > Len(ladder) THEN [ok |-> FALSE, G |-> Gd]
     ELSE LET nextRank == ladder[currentRankIdx + 2]
              occupied == Cardinality({pid \in DOMAIN Gd.ranks :
                                         pid # playerID /\ Gd.ranks[pid] = nextRank.id})
              playerResources == Gd.resources[playerID]
          IN IF occupied >= rankSeatLimit(playerCount) THEN [ok |-> FALSE, G |-> Gd]
             ELSE IF ~hasResources(playerResources, nextRank.requirement) THEN [ok |-> FALSE, G |-> Gd]
             ELSE IF ~hasResources(playerResources, nextRank.cost) THEN [ok |-> FALSE, G |-> Gd]
             ELSE [ok |-> TRUE,
                   G |-> [Gd EXCEPT
                            !.resources[playerID] =
                               clampNonNegativeResources(
                                 applyResourceDelta(spendResources(playerResources, nextRank.cost),
                                                    nextRank.bonus)),
                            !.ranks[playerID] = nextRank.id]]

(* Object.entries / Object.keys iterate the seats in play order *)
FirstInOrder(order, P(_)) ==
  IF \E i \in 1..Len(order) : P(order[i])
    THEN order[CHOOSE i \in 1..Len(order) : P(order[i]) /\ \A j \in 1..(i - 1) : ~P(order[j])]
    ELSE "none"

(* getWinner looking at the ranks only once the deck is empty *)
getWinner_rankAfterDeck(Gd, order) ==
  LET AtTop(p) == Gd.ranks[p] = getTopRankId
      generalPlayer == FirstInOrder(order, AtTop)
      Best(p) == \A q \in DOMAIN Gd.resources :
                    ResourceSum(Gd.resources[q]) <= ResourceSum(Gd.resources[p])
  IN IF Len(Gd.deck) > 0 THEN "none"
     ELSE IF generalPlayer # "none" THEN generalPlayer
     ELSE IF \E p \in DOMAIN Gd.hands : Len(Gd.hands[p]) > 0 THEN "none"
     ELSE FirstInOrder(order, Best)

(* getWinner not looking at the hands once the deck is empty *)
getWinner_ignoresHands(Gd, order) ==
  LET AtTop(p) == Gd.ranks[p] = getTopRankId
      generalPlayer == FirstInOrder(order, AtTop)
      Best(p) == \A q \in DOMAIN Gd.resources :
                    ResourceSum(Gd.resources[q]) <= ResourceSum(Gd.resources[p])
  IN IF generalPlayer # "none" THEN generalPlayer
     ELSE IF Len(Gd.deck) = 0 THEN FirstInOrder(order, Best)
     ELSE "none"

getWinner(Gd, order) ==
  LET AtTop(p) == Gd.ranks[p] = getTopRankId
      generalPlayer == FirstInOrder(order, AtTop)
      (* stable sort by descending resource sum, element 0 *)
      Best(p) == \A q \in DOMAIN Gd.resources :
                    ResourceSum(Gd.resources[q]) <= ResourceSum(Gd.resources[p])
  IN IF generalPlayer # "none" THEN generalPlayer
     ELSE IF Len(Gd.deck) = 0
       THEN IF \E p \in DOMAIN Gd.hands : Len(Gd.hands[p]) > 0 THEN "none"
            ELSE FirstInOrder(order, Best)
       ELSE "none"

----------------------------------------------------------------------------
(* Moves.  A move works on a draft of the match state and returns           *)
(* [result, G, stage]: result INVALID_MOVE or "ok", G the draft as the move *)
(* left it, stage the argument of setStage ("turn" for endTurn, "same" for  *)
(* no event).                                                               *)

RECURSIVE drawCards(_, _, _)
drawCards(Gd, playerID, amount) ==
  IF amount = 0 \/ Len(Gd.deck) = 0 THEN Gd
  ELSE drawCards([Gd EXCEPT !.deck = SubSeq(@, 1, Len(@) - 1),
                            !.hands[playerID] = Append(@, Gd.deck[Len(Gd.deck)])],
                 playerID, amount - 1)

applySoftTo(Gd, pid, effects) ==
  LET s == applyCardEffectsSoft(Gd.resources[pid], Gd.ranks[pid], effects)
  IN [Gd EXCEPT !.resources[pid] = s.resources, !.ranks[pid] = s.rank]

(* the loop over the seats sparing nobody *)
RECURSIVE applySoftEach_noSkip(_, _, _, _, _)
applySoftEach_noSkip(Gd, order, skip, effects, i) ==
  IF i > Len(order) THEN Gd
  ELSE applySoftEach_noSkip(applySoftTo(Gd, order[i], effects), order, skip, effects, i + 1)

RECURSIVE applySoftEach(_, _, _, _, _)
applySoftEach(Gd, order, skip, effects, i) ==
  IF i > Len(order) THEN Gd
  ELSE applySoftEach(IF order[i] = skip THEN Gd ELSE applySoftTo(Gd, order[i], effects),
                     order, skip, effects, i + 1)

Invalid(Gd) == [result |-> INVALID_MOVE, G |-> Gd, stage |-> "same"]

(* drawCard refusing only a hand above the limit *)
drawCard_limitOffByOne(Gd, cur, stages, order, playerID) ==
  IF cur # playerID THEN Invalid(Gd)
  ELSE IF stages[playerID] # DRAW_STAGE THEN Invalid(Gd)
  ELSE IF Len(Gd.hands[playerID]) > HAND_LIMIT THEN Invalid(Gd)
  ELSE IF Len(Gd.deck) = 0 THEN [result |-> "ok", G |-> Gd, stage |-> PLAY_STAGE]
  ELSE LET card == Gd.deck[Len(Gd.deck)]
           popped == [Gd EXCEPT !.deck = SubSeq(@, 1, Len(@) - 1)]
       IN IF card.category = "LYAP"
            THEN [result |-> "ok",
                  G |-> [applySoftTo(popped, playerID, card.effects) EXCEPT !.discard = Append(@, card)],
                  stage |-> END_STAGE]
          ELSE IF card.category = "SCANDAL"
            THEN [result |-> "ok",
                  G |-> [applySoftEach(popped, order, "none", card.effects, 1)
                           EXCEPT !.discard = Append(@, card)],
                  stage |-> END_STAGE]
          ELSE [result |-> "ok",
                G |-> [popped EXCEPT !.hands[playerID] = Append(@, card)],
                stage |-> PLAY_STAGE]

(* drawCard whose drawn SCANDAL spares the drawer *)
drawCard_scandalSparesDrawer(Gd, cur, stages, order, playerID) ==
  IF cur # playerID THEN Invalid(Gd)
  ELSE IF stages[playerID] # DRAW_STAGE THEN Invalid(Gd)
  ELSE IF Len(Gd.hands[playerID]) >= HAND_LIMIT THEN Invalid(Gd)
  ELSE IF Len(Gd.deck) = 0 THEN [result |-> "ok", G |-> Gd, stage |-> PLAY_STAGE]
  ELSE LET card == Gd.deck[Len(Gd.deck)]
           popped == [Gd EXCEPT !.deck = SubSeq(@, 1, Len(@) - 1)]
       IN IF card.category = "LYAP"
            THEN [result |-> "ok",
                  G |-> [applySoftTo(popped, playerID, card.effects) EXCEPT !.discard = Append(@, card)],
                  stage |-> END_STAGE]
          ELSE IF card.category = "SCANDAL"
            THEN [result |-> "ok",
                  G |-> [applySoftEach(popped, order, playerID, card.effects, 1)
                           EXCEPT !.discard = Append(@, card)],
                  stage |-> END_STAGE]
          ELSE [result |-> "ok",
                G |-> [popped EXCEPT !.hands[playerID] = Append(@, card)],
                stage |-> PLAY_STAGE]

(* drawCard taking the first card of the array *)
drawCard_shift(Gd, cur, stages, order, playerID) ==
  IF cur # playerID THEN Invalid(Gd)
  ELSE IF stages[playerID] # DRAW_STAGE THEN Invalid(Gd)
  ELSE IF Len(Gd.hands[playerID]) >= HAND_LIMIT THEN Invalid(Gd)
  ELSE IF Len(Gd.deck) = 0 THEN [result |-> "ok", G |-> Gd, stage |-> PLAY_STAGE]
  ELSE LET card == Gd.deck[1]
           popped == [Gd EXCEPT !.deck = SubSeq(@, 2, Len(@))]
       IN IF card.category = "LYAP"
            THEN [result |-> "ok",
                  G |-> [applySoftTo(popped, playerID, card.effects) EXCEPT !.discard = Append(@, card)],
                  stage |-> END_STAGE]
          ELSE IF card.category = "SCANDAL"
            THEN [result |-> "ok",
                  G |-> [applySoftEach(popped, order, "none", card.effects, 1)
                           EXCEPT !.discard = Append(@, card)],
                  stage |-> END_STAGE]
          ELSE [result |-> "ok",
                G |-> [popped EXCEPT !.hands[playerID] = Append(@, card)],
                stage |-> PLAY_STAGE]

(* drawCard copying a card for the hand without taking it off the deck *)
drawCard_cardCopied(Gd, cur, stages, order, playerID) ==
  IF cur # playerID THEN Invalid(Gd)
  ELSE IF stages[playerID] # DRAW_STAGE THEN Invalid(Gd)
  ELSE IF Len(Gd.hands[playerID]) >= HAND_LIMIT THEN Invalid(Gd)
  ELSE IF Len(Gd.deck) = 0 THEN [result |-> "ok", G |-> Gd, stage |-> PLAY_STAGE]
  ELSE LET card == Gd.deck[Len(Gd.deck)]
           popped == [Gd EXCEPT !.deck = SubSeq(@, 1, Len(@) - 1)]
       IN IF card.category = "LYAP"
            THEN [result |-> "ok",
                  G |-> [applySoftTo(popped, playerID, card.effects) EXCEPT !.discard = Append(@, card)],
                  stage |-> END_STAGE]
          ELSE IF card.category = "SCANDAL"
            THEN [result |-> "ok",
                  G |-> [applySoftEach(popped, order, "none", card.effects, 1)
                           EXCEPT !.discard = Append(@, card)],
                  stage |-> END_STAGE]
          ELSE [result |-> "ok",
                G |-> [Gd EXCEPT !.hands[playerID] = Append(@, card)],
                stage |-> PLAY_STAGE]

drawCard(Gd, cur, stages, order, playerID) ==
  IF cur # playerID THEN Invalid(Gd)
  ELSE IF stages[playerID] # DRAW_STAGE THEN Invalid(Gd)
  ELSE IF Len(Gd.hands[playerID]) >= HAND_LIMIT THEN Invalid(Gd)
  ELSE IF Len(Gd.deck) = 0 THEN [result |-> "ok", G |-> Gd, stage |-> PLAY_STAGE]
  ELSE LET card == Gd.deck[Len(Gd.deck)]
           popped == [Gd EXCEPT !.deck = SubSeq(@, 1, Len(@) - 1)]
       IN IF card.category = "LYAP"
            THEN [result |-> "ok",
                  G |-> [applySoftTo(popped, playerID, card.effects) EXCEPT !.discard = Append(@, card)],
                  stage |-> END_STAGE]
          ELSE IF card.category = "SCANDAL"
            THEN [result |-> "ok",
                  G |-> [applySoftEach(popped, order, "none", card.effects, 1)
                           EXCEPT !.discard = Append(@, card)],
                  stage |-> END_STAGE]
          ELSE [result |-> "ok",
                G |-> [popped EXCEPT !.hands[playerID] = Append(@, card)],
                stage |-> PLAY_STAGE]

(* hand.findIndex((card) => card.id === cardId), 1-based, 0 when absent *)
findCardIndex(hand, cardId) ==
  IF \E i \in 1..Len(hand) : hand[i].id = cardId
    THEN CHOOSE i \in 1..Len(hand) : hand[i].id = cardId /\ \A j \in 1..(i - 1) : hand[j].id # cardId
    ELSE 0

RemoveAt(seq, idx) == SubSeq(seq, 1, idx - 1) \o SubSeq(seq, idx + 1, Len(seq))

(* while (hand.length > HAND_LIMIT) discard.push(hand.shift()) *)
RECURSIVE trimOverflow(_, _)
trimOverflow(hand, pile) ==
  IF Len(hand) > HAND_LIMIT THEN trimOverflow(Tail(hand), Append(pile, Head(hand)))
  ELSE [hand |-> hand, discard |-> pile]

(* the strict attempt paying with the planner's list, not the supplied one *)
applyStrictTo_plannedList(Gd, playerID, effects, repl) ==
  LET r == applyCardEffects(Gd.resources[playerID], Gd.ranks[playerID], effects,
                            planReplacementResources(Gd.resources[playerID], effects).list)
  IN [ok |-> r.ok,
      G |-> [Gd EXCEPT !.resources[playerID] = r.resources, !.ranks[playerID] = r.rank]]

applyStrictTo(Gd, playerID, effects, repl) ==
  LET r == applyCardEffects(Gd.resources[playerID], Gd.ranks[playerID], effects, repl)
  IN [ok |-> r.ok,
      G |-> [Gd EXCEPT !.resources[playerID] = r.resources, !.ranks[playerID] = r.rank]]

(* the DECISION loop without the failure flag *)
RECURSIVE decisionEach_flagNeverSet(_, _, _, _, _, _)
decisionEach_flagNeverSet(st, order, playerID, effects, repl, i) ==
  IF i > Len(order) THEN st
  ELSE IF order[i] = playerID
    THEN LET r == applyStrictTo(st.G, playerID, effects, repl)
         IN decisionEach_flagNeverSet([G |-> r.G, invalidDecisionReplacement |-> FALSE],
                                      order, playerID, effects, repl, i + 1)
    ELSE decisionEach_flagNeverSet([st EXCEPT !.G = applySoftTo(st.G, order[i], effects)],
                                   order, playerID, effects, repl, i + 1)

(* the DECISION loop over all seats: soft for the others, strict for the    *)
(* actor, nothing more once the actor's strict attempt has failed           *)
RECURSIVE decisionEach(_, _, _, _, _, _)
decisionEach(st, order, playerID, effects, repl, i) ==
  IF i > Len(order) \/ st.invalidDecisionReplacement THEN st
  ELSE IF order[i] = playerID
    THEN LET r == applyStrictTo(st.G, playerID, effects, repl)
         IN decisionEach([G |-> r.G, invalidDecisionReplacement |-> ~r.ok],
                         order, playerID, effects, repl, i + 1)
    ELSE decisionEach([st EXCEPT !.G = applySoftTo(st.G, order[i], effects)],
                      order, playerID, effects, repl, i + 1)

(* finishPlay leaving the played card in the hand as well *)
finishPlay_cardKept(Gd, playerID, idx) ==
  LET card == Gd.hands[playerID][idx]
      t == trimOverflow(Gd.hands[playerID], Append(Gd.discard, card))
  IN [result |-> "ok",
      G |-> [Gd EXCEPT !.hands[playerID] = t.hand, !.discard = t.discard],
      stage |-> END_STAGE]

(* finishPlay leaving the caller in the play stage *)
finishPlay_stageKept(Gd, playerID, idx) ==
  LET card == Gd.hands[playerID][idx]
      t == trimOverflow(RemoveAt(Gd.hands[playerID], idx), Append(Gd.discard, card))
  IN [result |-> "ok",
      G |-> [Gd EXCEPT !.hands[playerID] = t.hand, !.discard = t.discard],
      stage |-> "same"]

finishPlay(Gd, playerID, idx) ==
  LET card == Gd.hands[playerID][idx]
      t == trimOverflow(RemoveAt(Gd.hands[playerID], idx), Append(Gd.discard, card))
  IN [result |-> "ok",
      G |-> [Gd EXCEPT !.hands[playerID] = t.hand, !.discard = t.discard],
      stage |-> END_STAGE]

(* playCard accepting the caller as LYAP target *)
playCard_lyapSelfTarget(Gd, cur, stages, order, playerID, cardId, replacementResources, targetPlayerID) ==
  IF cur # playerID THEN Invalid(Gd)
  ELSE IF stages[playerID] # PLAY_STAGE THEN Invalid(Gd)
  ELSE LET idx == findCardIndex(Gd.hands[playerID], cardId) IN
    IF idx = 0 THEN Invalid(Gd)
    ELSE LET card == Gd.hands[playerID][idx] IN
      IF card.category = "LYAP"
        THEN IF targetPlayerID = "none"
                  \/ targetPlayerID \notin DOMAIN Gd.resources
               THEN Invalid(Gd)
               ELSE finishPlay(applySoftTo(Gd, targetPlayerID, card.effects), playerID, idx)
      ELSE IF card.category = "SCANDAL"
        THEN finishPlay(applySoftEach(Gd, order, playerID, card.effects, 1), playerID, idx)
      ELSE IF card.category = "SUPPORT"
        THEN LET r == applyStrictTo(Gd, playerID, card.effects, replacementResources)
             IN IF ~r.ok THEN Invalid(r.G) ELSE finishPlay(r.G, playerID, idx)
      ELSE IF card.category = "DECISION"
        THEN LET d == decisionEach([G |-> Gd, invalidDecisionReplacement |-> FALSE], order,
                                   playerID, card.effects, replacementResources, 1)
             IN IF d.invalidDecisionReplacement THEN Invalid(d.G) ELSE finishPlay(d.G, playerID, idx)
      ELSE LET r == applyStrictTo(Gd, playerID, card.effects, replacementResources)
           IN IF ~r.ok THEN Invalid(r.G) ELSE finishPlay(r.G, playerID, idx)

(* playCard going on after a failed strict attempt (NEUTRAL, VVNZ, LEGENDARY) *)
playCard_ignoresStrictFailure(Gd, cur, stages, order, playerID, cardId, replacementResources, targetPlayerID) ==
  IF cur # playerID THEN Invalid(Gd)
  ELSE IF stages[playerID] # PLAY_STAGE THEN Invalid(Gd)
  ELSE LET idx == findCardIndex(Gd.hands[playerID], cardId) IN
    IF idx = 0 THEN Invalid(Gd)
    ELSE LET card == Gd.hands[playerID][idx] IN
      IF card.category = "LYAP"
        THEN IF targetPlayerID = "none" \/ targetPlayerID = playerID
                  \/ targetPlayerID \notin DOMAIN Gd.resources
               THEN Invalid(Gd)
               ELSE finishPlay(applySoftTo(Gd, targetPlayerID, card.effects), playerID, idx)
      ELSE IF card.category = "SCANDAL"
        THEN finishPlay(applySoftEach(Gd, order, playerID, card.effects, 1), playerID, idx)
      ELSE IF card.category = "SUPPORT"
        THEN LET r == applyStrictTo(Gd, playerID, card.effects, replacementResources)
             IN IF ~r.ok THEN Invalid(r.G) ELSE finishPlay(r.G, playerID, idx)
      ELSE IF card.category = "DECISION"
        THEN LET d == decisionEach([G |-> Gd, invalidDecisionReplacement |-> FALSE], order,
                                   playerID, card.effects, replacementResources, 1)
             IN IF d.invalidDecisionReplacement THEN Invalid(d.G) ELSE finishPlay(d.G, playerID, idx)
      ELSE LET r == applyStrictTo(Gd, playerID, card.effects, replacementResources)
           IN finishPlay(r.G, playerID, idx)

playCard(Gd, cur, stages, order, playerID, cardId, replacementResources, targetPlayerID) ==
  IF cur # playerID THEN Invalid(Gd)
  ELSE IF stages[playerID] # PLAY_STAGE THEN Invalid(Gd)
  ELSE LET idx == findCardIndex(Gd.hands[playerID], cardId) IN
    IF idx = 0 THEN Invalid(Gd)
    ELSE LET card == Gd.hands[playerID][idx] IN
      IF card.category = "LYAP"
        THEN IF targetPlayerID = "none" \/ targetPlayerID = playerID
                  \/ targetPlayerID \notin DOMAIN Gd.resources
               THEN Invalid(Gd)
               ELSE finishPlay(applySoftTo(Gd, targetPlayerID, card.effects), playerID, idx)
      ELSE IF card.category = "SCANDAL"
        THEN finishPlay(applySoftEach(Gd, order, playerID, card.effects, 1), playerID, idx)
      ELSE IF card.category = "SUPPORT"
        THEN LET r == applyStrictTo(Gd, playerID, card.effects, replacementResources)
             IN IF ~r.ok THEN Invalid(r.G) ELSE finishPlay(r.G, playerID, idx)
      ELSE IF card.category = "DECISION"
        THEN LET d == decisionEach([G |-> Gd, invalidDecisionReplacement |-> FALSE], order,
                                   playerID, card.effects, replacementResources, 1)
             IN IF d.invalidDecisionReplacement THEN Invalid(d.G) ELSE finishPlay(d.G, playerID, idx)
      ELSE LET r == applyStrictTo(Gd, playerID, card.effects, replacementResources)
           IN IF ~r.ok THEN Invalid(r.G) ELSE finishPlay(r.G, playerID, idx)

(* promote not looking at the per-turn flag *)
promote_flagUnchecked(Gd, cur, stages, order, playerID) ==
  IF cur # playerID THEN Invalid(Gd)
  ELSE IF stages[playerID] # PLAY_STAGE THEN Invalid(Gd)
  ELSE LET playerCount == Len(order)
           r == promoteRank(Gd, playerID, playerCount)
       IN IF ~r.ok THEN Invalid(r.G)
          ELSE [result |-> "ok",
                G |-> [r.G EXCEPT !.promotedThisTurn[playerID] = TRUE],
                stage |-> "same"]

promote(Gd, cur, stages, order, playerID) ==
  IF cur # playerID THEN Invalid(Gd)
  ELSE IF stages[playerID] # PLAY_STAGE THEN Invalid(Gd)
  ELSE IF Gd.promotedThisTurn[playerID] THEN Invalid(Gd)
  ELSE LET playerCount == Len(order)
           r == promoteRank(Gd, playerID, playerCount)
       IN IF ~r.ok THEN Invalid(r.G)
          ELSE [result |-> "ok",
                G |-> [r.G EXCEPT !.promotedThisTurn[playerID] = TRUE],
                stage |-> "same"]

(* pass accepted from the current player in any stage *)
pass_anyStage(Gd, cur, stages, playerID) ==
  IF cur # playerID THEN Invalid(Gd)
  ELSE [result |-> "ok", G |-> Gd, stage |-> "turn"]

pass(Gd, cur, stages, playerID) ==
  IF cur # playerID THEN Invalid(Gd)
  ELSE IF stages[playerID] \notin {PLAY_STAGE, END_STAGE} THEN Invalid(Gd)
  ELSE [result |-> "ok", G |-> Gd, stage |-> "turn"]

(* turn.onBegin sending the current player to the draw stage whatever the deck *)
onBegin_alwaysDraw(Gd, order, cur) ==
  [G |-> [Gd EXCEPT !.promotedThisTurn = [pid \in DOMAIN @ |-> FALSE]],
   activePlayers |-> [pid \in {order[i] : i \in 1..Len(order)} |->
                        IF pid = cur THEN DRAW_STAGE ELSE IDLE_STAGE]]

(* turn.onBegin: the flags are cleared and the stages are set *)
onBegin(Gd, order, cur) ==
  [G |-> [Gd EXCEPT !.promotedThisTurn = [pid \in DOMAIN @ |-> FALSE]],
   activePlayers |-> [pid \in {order[i] : i \in 1..Len(order)} |->
                        IF pid = cur THEN (IF Len(Gd.deck) > 0 THEN DRAW_STAGE ELSE PLAY_STAGE)
                        ELSE IDLE_STAGE]]

endIf(Gd, order) == getWinner(Gd, order)

(* new Array(n).fill({ id: 'hidden', title: 'Hidden', category: 'NEUTRAL' }) *)
hiddenCard == [id |-> "hidden", title |-> "Hidden", category |-> "NEUTRAL"]

(* a card as the owner of the hand gets it: the object itself *)
ownCard(card) == [id |-> card.id, category |-> card.category, effects |-> card.effects, cost |-> "kept"]

(* ({ id, title, category, image, effects, flavor }) => ({ ... }): every *)
(* other field of the card, its cost, is left out                        *)
publicCard(card) == [id |-> card.id, category |-> card.category, effects |-> card.effects, cost |-> "left out"]

(* playerView showing the deck whether or not the match is over *)
playerView_deckShown(Gd, over, playerID) ==
  [discard |-> Gd.discard,
   ranks |-> Gd.ranks,
   resources |-> Gd.resources,
   promotedThisTurn |-> Gd.promotedThisTurn,
   hands |-> [pid \in DOMAIN Gd.hands |->
                [i \in 1..Len(Gd.hands[pid]) |->
                   IF pid = playerID THEN ownCard(Gd.hands[pid][i]) ELSE publicCard(Gd.hands[pid][i])]],
   deck |-> [i \in 1..Len(Gd.deck) |-> ownCard(Gd.deck[i])]]

(* the view of a seated player (playerID given); over: ctx.gameover is set *)
playerView(Gd, over, playerID) ==
  [discard |-> Gd.discard,
   ranks |-> Gd.ranks,
   resources |-> Gd.resources,
   promotedThisTurn |-> Gd.promotedThisTurn,
   hands |-> [pid \in DOMAIN Gd.hands |->
                [i \in 1..Len(Gd.hands[pid]) |->
                   IF pid = playerID THEN ownCard(Gd.hands[pid][i]) ELSE publicCard(Gd.hands[pid][i])]],
   deck |-> IF over THEN [i \in 1..Len(Gd.deck) |-> ownCard(Gd.deck[i])]
            ELSE [i \in 1..Len(Gd.deck) |-> hiddenCard]]

----------------------------------------------------------------------------
(* Bounds of the enumerated inputs *)

MaxRes == 2
MaxEffects == 2
MaxRepl == 4

NoWinner == "none"

playOrder == <<"0", "1">>

Players == {playOrder[i] : i \in 1..Len(playOrder)}

NoExpect == [G |-> <<>>, stage |-> "none"]

NoArgs == [cardId |-> "none", repl |-> <<>>, target |-> "none"]

NoPromos == [p \in Players |-> 0]

NoMove ==
  [move |-> "none", player |-> "none", violation |-> "none", card |-> "none", strict |-> "none",
   accepted |-> FALSE, dirty |-> FALSE, dirtyOthers |-> FALSE,
   promos |-> NoPromos, draws |-> 0, plays |-> 0, args |-> NoArgs]

RankIds == {getActiveRanks[i].id : i \in 1..Len(getActiveRanks)}

(* effects a card of the template may carry (parseCard accepts any integer  *)
(* value on the five resources and on rank)                                 *)
EffectPool ==
  { [resource |-> "time", value |-> -1], [resource |-> "time", value |-> -2],
    [resource |-> "time", value |-> 1],
    [resource |-> "discipline", value |-> -1], [resource |-> "discipline", value |-> -2],
    [resource |-> "discipline", value |-> 0],
    [resource |-> "rank", value |-> 1], [resource |-> "rank", value |-> -1] }

SeqsUpTo(S, n) == UNION {[1..m -> S] : m \in 0..n}

EffectLists == SeqsUpTo(EffectPool, MaxEffects)

ResourceVectors ==
  {Vec(t, r, d, 0, 0) : t \in 0..MaxRes, r \in 0..MaxRes, d \in 0..MaxRes}

ReplacementLists == SeqsUpTo({"time", "reputation"}, MaxRepl)

----------------------------------------------------------------------------
(* The match: setup from a shuffled template, then moves *)

Card(id, category, effects) == [id |-> id, category |-> category, effects |-> effects]

Eff(resource, value) == [resource |-> resource, value |-> value]

cardFiller == Card("neutral-01", "NEUTRAL", <<>>)

cardSupportBig ==
  Card("support-02", "SUPPORT",
       <<Eff("reputation", 3), Eff("discipline", 3), Eff("documents", 1), Eff("time", 1)>>)

cardSupport ==
  Card("support-01", "SUPPORT", <<Eff("reputation", 1), Eff("discipline", 1), Eff("time", 1)>>)

cardDecision == Card("decision-01", "DECISION", <<Eff("time", -3)>>)

cardLyap == Card("lyap-01", "LYAP", <<Eff("time", 1), Eff("time", -4), Eff("rank", -1)>>)

cardScandal == Card("scandal-01", "SCANDAL", <<Eff("rank", 3)>>)

cardVvnz == Card("vvnz-01", "VVNZ", <<Eff("time", -3), Eff("rank", 1)>>)

cardLegendary == Card("legendary-01", "LEGENDARY", <<>>)

(* shuffled decks as setup may produce them; the last element is the top.   *)
(* Seat 0 is dealt the top five cards, seat 1 the next five (or what is     *)
(* left of a short template).                                               *)
DeckDecision ==
  << cardSupport, cardDecision,
     cardFiller, cardFiller, cardFiller, cardFiller, cardFiller >>

DeckRankCards ==
  << cardFiller, cardVvnz,
     cardFiller, cardFiller, cardFiller, cardLyap, cardScandal >>

DeckLyapOnTop ==
  << cardLyap,
     cardFiller, cardFiller, cardFiller, cardFiller, cardFiller,
     cardFiller, cardFiller, cardFiller, cardFiller, cardFiller >>

DeckScandalOnTop ==
  << cardFiller, cardScandal,
     cardFiller, cardFiller, cardFiller, cardFiller, cardFiller,
     cardFiller, cardFiller, cardFiller, cardFiller, cardFiller >>

DeckLong == [i \in 1..17 |-> cardFiller]

DeckPromotion ==
  << cardFiller, cardSupportBig,
     cardFiller, cardFiller, cardFiller, cardFiller, cardFiller >>

Shuffles == {DeckDecision, DeckRankCards, DeckLyapOnTop, DeckScandalOnTop, DeckLong, DeckPromotion}

(* the two cards of the draw-then-play scenario *)
cardA == Card("CardA", "NEUTRAL", <<Eff("discipline", -1)>>)

cardB(effects) == Card("CardB", "LYAP", effects)

CardIds == UNION {{d[i].id : i \in 1..Len(d)} : d \in Shuffles} \cup {"unknown", "CardA", "CardB"}

MaxMoveRepl == 2

MoveReplacementLists == SeqsUpTo({"time", "reputation"}, MaxMoveRepl)

(* "9" is no seat of the table *)
Targets == Players \cup {"none", "9"}

(* arguments of playCard: a replacement list or a target *)
PlayArgs ==
  {a \in [cardId : CardIds, repl : MoveReplacementLists, target : Targets] :
     a.repl = <<>> \/ a.target = "none"}

RECURSIVE dealHands(_, _, _)
dealHands(Gd, order, i) ==
  IF i > Len(order) THEN Gd
  ELSE dealHands(drawCards(Gd, order[i], STARTING_HAND_SIZE), order, i + 1)

setup(shuffled, order) ==
  LET seats == {order[i] : i \in 1..Len(order)}
  IN dealHands([deck |-> shuffled,
                discard |-> <<>>,
                hands |-> [pid \in seats |-> <<>>],
                ranks |-> [pid \in seats |-> getActiveRanks[1].id],
                resources |-> [pid \in seats |-> Vec(2, 2, 2, 2, 2)],
                promotedThisTurn |-> [pid \in seats |-> FALSE]],
               order, 1)

(* the state after setup and the first onBegin, for a set of shuffles *)
InitFrom(shuffles) ==
  /\ sharedRanks = baseRanks
  /\ \E shuffled \in shuffles :
       LET b == onBegin(setup(shuffled, playOrder), playOrder, playOrder[1])
       IN /\ deck = b.G.deck
          /\ discard = b.G.discard
          /\ hands = b.G.hands
          /\ ranks = b.G.ranks
          /\ resources = b.G.resources
          /\ promotedThisTurn = b.G.promotedThisTurn
          /\ activePlayers = b.activePlayers
  /\ legendaryDeck = <<cardLegendary>>
  /\ currentPlayer = playOrder[1]
  /\ gameover = NoWinner
  /\ last = NoMove

Init ==
  /\ InitFrom(Shuffles)
  /\ fx = [phase |-> "none"]

nextInOrder(order, cur) ==
  LET i == CHOOSE j \in 1..Len(order) : order[j] = cur
  IN order[(i % Len(order)) + 1]

SetMatch(Gd) ==
  /\ deck' = Gd.deck
  /\ discard' = Gd.discard
  /\ hands' = Gd.hands
  /\ ranks' = Gd.ranks
  /\ resources' = Gd.resources
  /\ promotedThisTurn' = Gd.promotedThisTurn

(* What the framework does with a move: nothing once the match is over;     *)
(* the draft is thrown away when the move returns INVALID_MOVE; otherwise   *)
(* the draft becomes the state, endIf is evaluated and the events of the    *)
(* move (setStage / endTurn with the next turn's onBegin) are applied.      *)
(* obs describes the call; it is kept in `last` together with the outcome:  *)
(* dirty / dirtyOthers tell whether the draft of a rejected move differed   *)
(* from the state in the caller's own entries / in another seat's entries;  *)
(* promos counts, per seat, the accepted promote calls since the turn began; *)
(* draws and plays count the accepted drawCard and playCard calls since the  *)
(* turn began;                                                               *)
(* args are the arguments of the call when it is accepted.                   *)
processMove(obs, r) ==
  IF gameover # NoWinner
    THEN /\ UNCHANGED matchVars
         /\ last' = [move |-> obs.move, player |-> obs.player, violation |-> "over",
                     card |-> "none", strict |-> "none",
                     accepted |-> FALSE, dirty |-> FALSE, dirtyOthers |-> FALSE,
                     promos |-> last.promos, draws |-> last.draws, plays |-> last.plays,
                     args |-> NoArgs]
  ELSE IF r.result = INVALID_MOVE
    THEN /\ UNCHANGED matchVars
         /\ last' = [move |-> obs.move, player |-> obs.player, violation |-> obs.violation,
                     card |-> obs.card, strict |-> obs.strict,
                     accepted |-> FALSE,
                     dirty |-> r.G # G,
                     dirtyOthers |-> \E q \in Players \ {obs.player} :
                                        \/ r.G.resources[q] # resources[q]
                                        \/ r.G.ranks[q] # ranks[q],
                     promos |-> last.promos, draws |-> last.draws, plays |-> last.plays,
                     args |-> NoArgs]
  ELSE LET winner == endIf(r.G, playOrder)
       IN /\ last' = [move |-> obs.move, player |-> obs.player, violation |-> obs.violation,
                      card |-> obs.card, strict |-> obs.strict,
                      accepted |-> TRUE, dirty |-> FALSE, dirtyOthers |-> FALSE,
                      promos |-> IF r.stage = "turn" /\ winner = NoWinner THEN NoPromos
                                 ELSE IF obs.move = "promote"
                                   THEN [last.promos EXCEPT ![obs.player] = @ + 1]
                                 ELSE last.promos,
                      draws |-> IF r.stage = "turn" /\ winner = NoWinner THEN 0
                                ELSE IF obs.move = "drawCard" THEN last.draws + 1
                                ELSE last.draws,
                      plays |-> IF r.stage = "turn" /\ winner = NoWinner THEN 0
                                ELSE IF obs.move = "playCard" THEN last.plays + 1
                                ELSE last.plays,
                      args |-> obs.args]
          /\ gameover' = winner
          /\ legendaryDeck' = legendaryDeck
          /\ IF r.stage = "turn" /\ winner = NoWinner
               THEN LET nxt == nextInOrder(playOrder, currentPlayer)
                        b == onBegin(r.G, playOrder, nxt)
                    IN /\ SetMatch(b.G)
                       /\ currentPlayer' = nxt
                       /\ activePlayers' = b.activePlayers
               ELSE /\ SetMatch(r.G)
                    /\ currentPlayer' = currentPlayer
                    /\ activePlayers' = IF r.stage \in {"same", "turn"} THEN activePlayers
                                        ELSE [activePlayers EXCEPT ![obs.player] = r.stage]

(* The precondition a call violates, read off the state and the arguments *)
DrawViolation(p) ==
  IF p # currentPlayer THEN "actor"
  ELSE IF activePlayers[p] # DRAW_STAGE THEN "stage"
  ELSE IF Len(hands[p]) >= HAND_LIMIT THEN "limit"
  ELSE "none"

HandCategory(p, cardId) ==
  IF \E i \in 1..Len(hands[p]) : hands[p][i].id = cardId
    THEN hands[p][findCardIndex(hands[p], cardId)].category
    ELSE "none"

PlayViolation(p, a) ==
  IF p # currentPlayer THEN "actor"
  ELSE IF activePlayers[p] # PLAY_STAGE THEN "stage"
  ELSE IF HandCategory(p, a.cardId) = "none" THEN "card"
  ELSE IF HandCategory(p, a.cardId) = "LYAP" /\ (a.target = "none" \/ a.target = p \/ a.target \notin Players)
    THEN "target"
  ELSE "none"

StrictCategories == {"SUPPORT", "DECISION", "NEUTRAL", "VVNZ", "LEGENDARY"}

(* outcome of the strict attempt on the caller that the call leads to *)
StrictOutcome(p, a) ==
  IF PlayViolation(p, a) # "none" \/ HandCategory(p, a.cardId) \notin StrictCategories THEN "none"
  ELSE IF applyCardEffects(resources[p], ranks[p],
                           hands[p][findCardIndex(hands[p], a.cardId)].effects, a.repl).ok
    THEN "ok" ELSE "failed"

RankIndexOf(p) == findRankIndex(getActiveRanks, ranks[p])

PromoteEligible(p) ==
  /\ RankIndexOf(p) + 2 <= Len(getActiveRanks)
  /\ LET nextRank == getActiveRanks[RankIndexOf(p) + 2]
     IN /\ Cardinality({q \in Players \ {p} : ranks[q] = nextRank.id})
             < (IF Len(playOrder) <= 2 THEN 1 ELSE IF Len(playOrder) <= 4 THEN 2 ELSE 3)
        /\ \A k \in Keys : resources[p][k] >= nextRank.requirement[k]
        /\ \A k \in Keys : resources[p][k] >= nextRank.cost[k]

PromoteViolation(p) ==
  IF p # currentPlayer THEN "actor"
  ELSE IF activePlayers[p] # PLAY_STAGE THEN "stage"
  ELSE IF promotedThisTurn[p] THEN "promoted"
  ELSE IF ~PromoteEligible(p) THEN "ineligible"
  ELSE "none"

PassViolation(p) ==
  IF p # currentPlayer THEN "actor"
  ELSE IF activePlayers[p] \notin {PLAY_STAGE, END_STAGE} THEN "stage"
  ELSE "none"

(* The outcome a call is to have when it is accepted: the drawn card goes   *)
(* to the drawer's hand, or, a LYAP, hits the drawer, a SCANDAL every seat, *)
(* and goes to the discard pile                                             *)
SoftOf(q, effects) == applyCardEffectsSoft(resources[q], ranks[q], effects)

DrawExpect(p) ==
  IF Len(deck) = 0 THEN NoExpect
  ELSE LET card == deck[Len(deck)]
           rest == SubSeq(deck, 1, Len(deck) - 1)
       IN IF card.category = "LYAP"
            THEN [G |-> [G EXCEPT !.deck = rest, !.discard = Append(discard, card),
                                  !.resources[p] = SoftOf(p, card.effects).resources,
                                  !.ranks[p] = SoftOf(p, card.effects).rank],
                  stage |-> END_STAGE]
          ELSE IF card.category = "SCANDAL"
            THEN [G |-> [G EXCEPT !.deck = rest, !.discard = Append(discard, card),
                                  !.resources = [q \in Players |-> SoftOf(q, card.effects).resources],
                                  !.ranks = [q \in Players |-> SoftOf(q, card.effects).rank]],
                  stage |-> END_STAGE]
          ELSE [G |-> [G EXCEPT !.deck = rest, !.hands[p] = Append(hands[p], card)],
                stage |-> PLAY_STAGE]

(* the played card leaves the hand for the end of the discard pile; a LYAP  *)
(* hits the target (soft), a SCANDAL every seat but the caller (soft), a    *)
(* DECISION the caller (strict, with the supplied list) and every other     *)
(* seat (soft), any other card the caller alone (strict)                    *)
PlayExpect(p, a) ==
  IF HandCategory(p, a.cardId) = "none" THEN NoExpect
  ELSE LET idx == findCardIndex(hands[p], a.cardId)
           card == hands[p][idx]
           moved == [G EXCEPT !.hands[p] = RemoveAt(hands[p], idx),
                              !.discard = Append(discard, card)]
           strict == applyCardEffects(resources[p], ranks[p], card.effects, a.repl)
           hit(q) == IF card.category = "LYAP" THEN q = a.target
                     ELSE IF card.category \in {"SCANDAL", "DECISION"} THEN q # p
                     ELSE FALSE
           paid(q) == card.category \notin {"LYAP", "SCANDAL"} /\ q = p
       IN [G |-> [moved EXCEPT
                    !.resources = [q \in Players |->
                                     IF paid(q) THEN strict.resources
                                     ELSE IF hit(q) THEN SoftOf(q, card.effects).resources
                                     ELSE resources[q]],
                    !.ranks = [q \in Players |->
                                 IF paid(q) THEN strict.rank
                                 ELSE IF hit(q) THEN SoftOf(q, card.effects).rank
                                 ELSE ranks[q]]],
           stage |-> END_STAGE]

DrawCardMove ==
  /\ \E p \in Players :
       processMove([move |-> "drawCard", player |-> p, violation |-> DrawViolation(p),
                    card |-> "none", strict |-> "none", args |-> NoArgs],
                   drawCard(G, currentPlayer, activePlayers, playOrder, p))
  /\ UNCHANGED <<fx, sharedRanks>>

(* the ids a caller names: those of the cards in hand and one of no card *)
PlayArgsOf(p) == {a \in PlayArgs : a.cardId = "unknown" \/ HandCategory(p, a.cardId) # "none"}

PlayCardMove ==
  /\ \E p \in Players :
     \E a \in PlayArgsOf(p) :
       processMove([move |-> "playCard", player |-> p, violation |-> PlayViolation(p, a),
                    card |-> HandCategory(p, a.cardId), strict |-> StrictOutcome(p, a), args |-> a],
                   playCard(G, currentPlayer, activePlayers, playOrder, p, a.cardId, a.repl, a.target))
  /\ UNCHANGED <<fx, sharedRanks>>

PromoteMove ==
  /\ \E p \in Players :
       processMove([move |-> "promote", player |-> p, violation |-> PromoteViolation(p),
                    card |-> "none", strict |-> "none", args |-> NoArgs],
                   promote(G, currentPlayer, activePlayers, playOrder, p))
  /\ UNCHANGED <<fx, sharedRanks>>

PassMove ==
  /\ \E p \in Players :
       processMove([move |-> "pass", player |-> p, violation |-> PassViolation(p),
                    card |-> "none", strict |-> "none", args |-> NoArgs],
                   pass(G, currentPlayer, activePlayers, p))
  /\ UNCHANGED <<fx, sharedRanks>>

Next == DrawCardMove \/ PlayCardMove \/ PromoteMove \/ PassMove

Spec == Init /\ [][Next]_vars

----------------------------------------------------------------------------
(* The moves of a match started from the draw-then-play scenario: a deck of *)
(* CardA and CardB in either order, the active seat in stage draw with an   *)
(* empty hand and one discipline (specification SpecScenario)               *)

ScenarioLyapEffects == {<<>>, <<Eff("discipline", -1)>>, <<Eff("rank", 1)>>}

ScenarioInit ==
  /\ sharedRanks = baseRanks
  /\ \E e \in ScenarioLyapEffects : deck \in {<<cardA, cardB(e)>>, <<cardB(e), cardA>>}
  /\ discard = <<>>
  /\ legendaryDeck = <<cardLegendary>>
  /\ currentPlayer \in Players
  /\ \E other \in {<<>>, <<cardFiller>>} :
       hands = [p \in Players |-> IF p = currentPlayer THEN <<>> ELSE other]
  /\ ranks = [p \in Players |-> getActiveRanks[1].id]
  /\ \E other \in {ZeroVec, Vec(2, 2, 2, 2, 2)} :
       resources = [p \in Players |-> IF p = currentPlayer THEN Vec(0, 0, 1, 0, 0) ELSE other]
  /\ promotedThisTurn = [p \in Players |-> FALSE]
  /\ activePlayers = [p \in Players |-> IF p = currentPlayer THEN DRAW_STAGE ELSE IDLE_STAGE]
  /\ gameover = NoWinner
  /\ last = NoMove
  /\ fx = [phase |-> "none"]

SpecScenario == ScenarioInit /\ [][Next]_vars

----------------------------------------------------------------------------
(* The effect engine applied to enumerated inputs *)

NoMatch ==
  /\ sharedRanks = baseRanks
  /\ deck = <<>>
  /\ discard = <<>>
  /\ legendaryDeck = <<>>
  /\ hands = [p \in Players |-> <<>>]
  /\ ranks = [p \in Players |-> getActiveRanks[1].id]
  /\ resources = [p \in Players |-> ZeroVec]
  /\ promotedThisTurn = [p \in Players |-> FALSE]
  /\ currentPlayer = playOrder[1]
  /\ activePlayers = [p \in Players |-> IDLE_STAGE]
  /\ gameover = NoWinner
  /\ last = NoMove

FxInit ==
  /\ NoMatch
  /\ \E e \in EffectLists, r \in ResourceVectors, k \in RankIds :
       fx = [phase |-> "input", effects |-> e, res |-> r, rank |-> k]

FxStrict ==
  /\ fx.phase = "input"
  /\ \E repl \in ReplacementLists :
       fx' = [phase |-> "strict", effects |-> fx.effects, res |-> fx.res, rank |-> fx.rank,
              repl |-> repl,
              cost |-> replacementCostUnits(fx.res, fx.effects),
              out |-> applyCardEffects(fx.res, fx.rank, fx.effects, repl)]
  /\ UNCHANGED <<matchVars, last, sharedRanks>>

FxSoft ==
  /\ fx.phase = "input"
  /\ fx' = [phase |-> "soft", effects |-> fx.effects, res |-> fx.res, rank |-> fx.rank,
            out |-> applyCardEffectsSoft(fx.res, fx.rank, fx.effects)]
  /\ UNCHANGED <<matchVars, last, sharedRanks>>

FxNext == FxStrict \/ FxSoft

SpecFx == FxInit /\ [][FxNext]_vars

----------------------------------------------------------------------------
(* promote and getWinner applied to enumerated tables of 2..MaxSeats seats *)

MaxSeats == 5

TableSeats == <<"0", "1", "2", "3", "4", "5", "6">>

TableOrder(n) == SubSeq(TableSeats, 1, n)

SeatsOf(order) == {order[i] : i \in 1..Len(order)}

(* what the rank at ladder position i (1-based) asks of a player: the larger *)
(* of requirement and cost on every key                                      *)
NeedOf(i) ==
  [k \in Keys |-> Max(getActiveRanks[i].requirement[k], getActiveRanks[i].cost[k])]

(* resources at, just below (on one key) and above the need of each rank *)
PromotionVectors ==
  {Vec(2, 2, 2, 2, 2)} \cup
  UNION {{NeedOf(i)} \cup {[NeedOf(i) EXCEPT ![k] = Max(0, @ - 1)] : k \in Keys}
                     \cup {[k \in Keys |-> NeedOf(i)[k] + 1]} :
         i \in 2..Len(getActiveRanks)}

(* seat "0" is the current player; the occ seats after it hold otherRank *)
PromoteTable(n, actorRank, otherRank, occ, res, flag, stage) ==
  LET order == TableOrder(n)
      seats == SeatsOf(order)
  IN [phase |-> "ptable",
      order |-> order,
      cur |-> order[1],
      stages |-> [pid \in seats |-> IF pid = order[1] THEN stage ELSE IDLE_STAGE],
      G |-> [deck |-> <<cardFiller>>,
             discard |-> <<>>,
             hands |-> [pid \in seats |-> <<cardFiller>>],
             ranks |-> [pid \in seats |->
                          IF pid = order[1] THEN actorRank
                          ELSE IF \E i \in 2..(occ + 1) : order[i] = pid THEN otherRank
                          ELSE getActiveRanks[1].id],
             resources |-> [pid \in seats |-> IF pid = order[1] THEN res ELSE Vec(2, 2, 2, 2, 2)],
             promotedThisTurn |-> [pid \in seats |-> pid = order[1] /\ flag]]]

(* seat i holds w[i] units of the i-th resource kind (wrapping around) *)
WinnerTable(n, w, emptyDeck, handSeat, topSeat) ==
  LET order == TableOrder(n)
      seats == SeatsOf(order)
      idx(pid) == CHOOSE i \in 1..n : order[i] = pid
  IN [phase |-> "wtable",
      order |-> order,
      cur |-> order[1],
      stages |-> [pid \in seats |-> IF pid = order[1] THEN PLAY_STAGE ELSE IDLE_STAGE],
      G |-> [deck |-> IF emptyDeck THEN <<>> ELSE <<cardFiller>>,
             discard |-> <<>>,
             hands |-> [pid \in seats |-> IF idx(pid) = handSeat THEN <<cardFiller>> ELSE <<>>],
             ranks |-> [pid \in seats |->
                          IF idx(pid) = topSeat THEN getTopRankId ELSE getActiveRanks[1].id],
             resources |-> [pid \in seats |->
                              [ZeroVec EXCEPT ![resourceKeys[((idx(pid) - 1) % Len(resourceKeys)) + 1]]
                                                 = w[idx(pid)]]],
             promotedThisTurn |-> [pid \in seats |-> FALSE]]]

TableInit ==
  /\ NoMatch
  /\ \/ \E n \in 2..MaxSeats, actorRank \in RankIds, otherRank \in RankIds, occ \in 0..(MaxSeats - 1),
            res \in PromotionVectors, flag \in BOOLEAN, stage \in {DRAW_STAGE, PLAY_STAGE, END_STAGE} :
          /\ occ < n
          /\ fx = PromoteTable(n, actorRank, otherRank, occ, res, flag, stage)
     \/ \E n \in 2..MaxSeats :
          \E w \in [1..n -> 0..MaxRes], e \in BOOLEAN, h \in 0..n, g \in {0, n} :
            fx = WinnerTable(n, w, e, h, g)

TablePromote ==
  /\ fx.phase = "ptable"
  /\ \E p \in {fx.order[1], fx.order[2]} :
       fx' = [phase |-> "promote", order |-> fx.order, cur |-> fx.cur, stages |-> fx.stages,
              G |-> fx.G, caller |-> p,
              out |-> promote(fx.G, fx.cur, fx.stages, fx.order, p)]
  /\ UNCHANGED <<matchVars, last, sharedRanks>>

TableWinner ==
  /\ fx.phase = "wtable"
  /\ fx' = [phase |-> "winner", order |-> fx.order, cur |-> fx.cur, stages |-> fx.stages,
            G |-> fx.G, out |-> getWinner(fx.G, fx.order)]
  /\ UNCHANGED <<matchVars, last, sharedRanks>>

TableNext == TablePromote \/ TableWinner

SpecTable == TableInit /\ [][TableNext]_vars

----------------------------------------------------------------------------
(* The match simulator (simulateSingleMatch / runGameSimulations), driven   *)
(* on enumerated inputs and shuffles (specification SpecSim).  fx holds the *)
(* loop variables of runGameSimulations and of the match being simulated.   *)

MaxSims == 2

MaxTurnsIn == 21

(* Math.max(lo, Math.min(hi, Math.floor(x || dflt))) on an integer x *)
clampInput(x, lo, hi, dflt) == Max(lo, Min(hi, IF x = 0 THEN dflt ELSE x))

(* a card nobody seated with 2 of each resource can pay, planned or not *)
cardStuck == Card("stuck-01", "NEUTRAL", <<Eff("time", -12)>>)

DeckStuck == [i \in 1..18 |-> cardStuck]

DeckScandalDeep ==
  << cardFiller, cardFiller, cardFiller, cardScandal, cardFiller, cardFiller,
     cardFiller, cardFiller, cardFiller, cardFiller, cardFiller, cardFiller,
     cardFiller, cardFiller, cardFiller, cardFiller, cardFiller, cardFiller, cardFiller >>

DeckHandLyap ==
  << cardFiller, cardFiller, cardSupport, cardVvnz, cardDecision, cardScandal, cardLyap,
     cardFiller, cardFiller, cardFiller >>

(* shuffled templates a simulated match may start from *)
SimShuffles == {DeckStuck, DeckScandalDeep, DeckHandLyap, DeckDecision, DeckPromotion}

simSetup(shuffled, numPlayers) == setup(shuffled, TableOrder(numPlayers))

(* [...candidates].sort((a, b) => score(b) - score(a))[0]: the first seat *)
(* of maximal score among the seats other than the source                 *)
chooseLyapTarget(Gd, order, sourcePlayerID) ==
  LET score(pid) == ResourceSum(Gd.resources[pid]) + findRankIndex(getActiveRanks, Gd.ranks[pid]) * 2
      Top(pid) == /\ pid # sourcePlayerID
                  /\ \A q \in SeatsOf(order) \ {sourcePlayerID} : score(q) <= score(pid)
  IN FirstInOrder(order, Top)

(* the draw at the head of a simulated turn *)
simDraw(Gd, order, playerID) ==
  IF Len(Gd.deck) = 0 THEN [G |-> Gd, stage |-> PLAY_STAGE]
  ELSE LET card == Gd.deck[Len(Gd.deck)]
           popped == [Gd EXCEPT !.deck = SubSeq(@, 1, Len(@) - 1)]
       IN IF card.category = "LYAP"
            THEN [G |-> [applySoftTo(popped, playerID, card.effects) EXCEPT !.discard = Append(@, card)],
                  stage |-> END_STAGE]
          ELSE IF card.category = "SCANDAL"
            THEN [G |-> [applySoftEach(popped, order, "none", card.effects, 1)
                           EXCEPT !.discard = Append(@, card)],
                  stage |-> END_STAGE]
          ELSE [G |-> [popped EXCEPT !.hands[playerID] = Append(@, card)], stage |-> PLAY_STAGE]

(* the for loop over the hand: the first card that can be played is played; *)
(* a strict application that throws leaves what it had written and the loop *)
(* goes on with the next card                                               *)
RECURSIVE simPlayLoop(_, _, _, _, _, _)
RECURSIVE simPlayCard(_, _, _, _, _, _, _)
RECURSIVE simPlayLyap(_, _, _, _, _, _, _, _)
RECURSIVE simPlayStrict(_, _, _, _, _, _, _, _)
RECURSIVE simPlayStrictWith(_, _, _, _, _, _, _, _)

(* hand.splice(i, 1), discard.push(card), one more try to promote *)
simFinish(applied, numPlayers, playerID, i, promoted, card) ==
  LET moved == [applied EXCEPT !.hands[playerID] = RemoveAt(@, i), !.discard = Append(@, card)]
  IN [G |-> IF promoted THEN moved ELSE promoteRank(moved, playerID, numPlayers).G,
      played |-> TRUE]

simPlayLoop(Gd, order, numPlayers, playerID, i, promoted) ==
  IF i > Len(Gd.hands[playerID]) THEN [G |-> Gd, played |-> FALSE]
  ELSE simPlayCard(Gd, order, numPlayers, playerID, i, promoted, Gd.hands[playerID][i])

simPlayCard(Gd, order, numPlayers, playerID, i, promoted, card) ==
  IF card.category = "LYAP"
    THEN simPlayLyap(Gd, order, numPlayers, playerID, i, promoted, card,
                     chooseLyapTarget(Gd, order, playerID))
  ELSE IF card.category \in {"SCANDAL", "DECISION"}
    THEN simFinish(applySoftEach(Gd, order, IF card.category = "SCANDAL" THEN playerID ELSE "none",
                                 card.effects, 1),
                   numPlayers, playerID, i, promoted, card)
  ELSE simPlayStrict(Gd, order, numPlayers, playerID, i, promoted, card,
                     buildReplacementPlan(Gd.resources[playerID], card.effects))

simPlayLyap(Gd, order, numPlayers, playerID, i, promoted, card, target) ==
  IF target = "none" THEN simPlayLoop(Gd, order, numPlayers, playerID, i + 1, promoted)
  ELSE simFinish(applySoftTo(Gd, target, card.effects), numPlayers, playerID, i, promoted, card)

simPlayStrict(Gd, order, numPlayers, playerID, i, promoted, card, replacement) ==
  IF ~replacement.ok THEN simPlayLoop(Gd, order, numPlayers, playerID, i + 1, promoted)
  ELSE simPlayStrictWith(Gd, order, numPlayers, playerID, i, promoted, card,
                         applyCardEffects(Gd.resources[playerID], Gd.ranks[playerID],
                                          card.effects, replacement.list))

simPlayStrictWith(Gd, order, numPlayers, playerID, i, promoted, card, strict) ==
  IF ~strict.ok
    THEN simPlayLoop([Gd EXCEPT !.resources[playerID] = strict.resources],
                     order, numPlayers, playerID, i + 1, promoted)
  ELSE simFinish([Gd EXCEPT !.resources[playerID] = strict.resources, !.ranks[playerID] = strict.rank],
                 numPlayers, playerID, i, promoted, card)

(* while (turns < maxTurns) *)
simLoopGuard_oneMore(turns, maxTurns) == turns <= maxTurns

simLoopGuard(turns, maxTurns) == turns < maxTurns

(* Object.entries(G.resources).sort(descending sum).at(0)?.[0] ?? '0' *)
fallbackWinner_noSeat(Gd, order) == "none"

fallbackWinner(Gd, order) ==
  LET Best(p) == \A q \in DOMAIN Gd.resources :
                    ResourceSum(Gd.resources[q]) <= ResourceSum(Gd.resources[p])
      first == FirstInOrder(order, Best)
  IN IF first = "none" THEN "0" ELSE first

(* the end of a pass of the while loop: turns += 1, getWinner, next seat *)
simTurnEnd(m, order, after, played, winner) ==
  [G |-> after,
   currentIdx |-> IF winner # "none" THEN m.currentIdx ELSE (m.currentIdx + 1) % Len(order),
   turns |-> m.turns + 1,
   passes |-> IF played THEN m.passes ELSE m.passes + 1,
   deckDepletionTurn |-> IF Len(m.G.deck) > 0 /\ Len(after.deck) = 0 /\ m.deckDepletionTurn < 0
                           THEN m.turns + 1 ELSE m.deckDepletionTurn,
   winner |-> winner]

(* stage play: one try to promote, then the loop over the hand *)
simPlayFrom(m, order, numPlayers, playerID, first) ==
  simPlayLoop(first.G, order, numPlayers, playerID, 1, first.ok)

simPlayed(m, order, loop) == simTurnEnd(m, order, loop.G, loop.played, getWinner(loop.G, order))

simAfterDraw(m, order, numPlayers, playerID, drawn) ==
  IF drawn.stage = PLAY_STAGE
    THEN simPlayed(m, order,
                   simPlayFrom(m, order, numPlayers, playerID,
                               promoteRank(drawn.G, playerID, numPlayers)))
    ELSE simPlayed(m, order, [G |-> drawn.G, played |-> FALSE])

(* one pass of the body of the while loop; winner is "none" or the winner *)
(* simulateSingleMatch returns from inside the loop                       *)
simulateTurn(m, numPlayers) ==
  LET order == TableOrder(numPlayers)
      playerID == order[m.currentIdx + 1]
  IN simAfterDraw(m, order, numPlayers, playerID, simDraw(m.G, order, playerID))

NoResult == [winner |-> "none", turns |-> 0, stalled |-> FALSE, wonByRank |-> FALSE, passes |-> 0]

NoReport == [finished |-> 0, stalled |-> 0, rankWins |-> 0, scoreWins |-> 0, seatWins |-> <<>>]

IdleMatch == [G |-> setup(<<>>, <<>>), currentIdx |-> 0, turns |-> 0, passes |-> 0,
              deckDepletionTurn |-> -1, winner |-> "none"]

(* the body of the for loop of runGameSimulations after a match returned *)
simAccount(result) ==
  [fx EXCEPT
     !.wins = [k \in (DOMAIN fx.wins) \cup {result.winner} |->
                 (IF k \in DOMAIN fx.wins THEN fx.wins[k] ELSE 0) + (IF k = result.winner THEN 1 ELSE 0)],
     !.stalled = IF result.stalled THEN @ + 1 ELSE @,
     !.rankWins = IF result.wonByRank THEN @ + 1 ELSE @,
     !.scoreWins = IF result.wonByRank THEN @ ELSE @ + 1,
     !.i = @ + 1,
     !.running = FALSE,
     !.result = result]

SimInit ==
  /\ NoMatch
  /\ \E players \in 0..3, simulations \in 0..MaxSims, maxTurns \in {0, 1, MaxTurnsIn} :
       fx = [phase |-> "sim",
             players |-> clampInput(players, 2, 6, 2),
             simulations |-> clampInput(simulations, 1, 5000, 1),
             maxTurns |-> clampInput(maxTurns, 20, 4000, 600),
             i |-> 0, running |-> FALSE, m |-> IdleMatch,
             wins |-> [k \in {} |-> 0], stalled |-> 0, rankWins |-> 0, scoreWins |-> 0,
             result |-> NoResult, report |-> NoReport, done |-> FALSE]

(* simulateSingleMatch up to the loop: shuffle, deal *)
SimStart ==
  /\ fx.phase = "sim" /\ ~fx.done /\ ~fx.running /\ fx.i < fx.simulations
  /\ \E shuffled \in SimShuffles :
       fx' = [fx EXCEPT !.running = TRUE,
                        !.m = [IdleMatch EXCEPT !.G = simSetup(shuffled, fx.players)]]
  /\ UNCHANGED matchVars
  /\ UNCHANGED <<last, sharedRanks>>

(* the loop of simulateSingleMatch after a pass: return the winner or go on *)
simStep(m) ==
  IF m.winner # "none"
    THEN [simAccount([winner |-> m.winner, turns |-> m.turns, stalled |-> FALSE,
                      wonByRank |-> m.G.ranks[m.winner] = getTopRankId,
                      passes |-> m.passes])
            EXCEPT !.m = m]
    ELSE [fx EXCEPT !.m = m]

(* one turn of the loop; a winner found at its end returns the match *)
SimTurn ==
  /\ fx.phase = "sim" /\ fx.running
  /\ simLoopGuard(fx.m.turns, fx.maxTurns)
  /\ fx' = simStep(simulateTurn(fx.m, fx.players))
  /\ UNCHANGED matchVars
  /\ UNCHANGED <<last, sharedRanks>>

(* the return after the loop *)
simStalled(w) ==
  simAccount([winner |-> w, turns |-> fx.maxTurns, stalled |-> TRUE,
              wonByRank |-> IF w \in DOMAIN fx.m.G.ranks
                              THEN fx.m.G.ranks[w] = getTopRankId ELSE FALSE,
              passes |-> fx.m.passes])

(* the turn budget is used up: the match returns stalled *)
SimStall ==
  /\ fx.phase = "sim" /\ fx.running
  /\ ~simLoopGuard(fx.m.turns, fx.maxTurns)
  /\ fx' = simStalled(fallbackWinner(fx.m.G, TableOrder(fx.players)))
  /\ UNCHANGED matchVars
  /\ UNCHANGED <<last, sharedRanks>>

(* the report built after the last match *)
SimReport ==
  /\ fx.phase = "sim" /\ ~fx.done /\ ~fx.running /\ fx.i >= fx.simulations
  /\ fx' = [fx EXCEPT
              !.done = TRUE,
              !.report = [finished |-> fx.simulations - fx.stalled,
                          stalled |-> fx.stalled,
                          rankWins |-> fx.rankWins,
                          scoreWins |-> fx.scoreWins,
                          seatWins |-> [pid \in SeatsOf(TableOrder(fx.players)) |->
                                          IF pid \in DOMAIN fx.wins THEN fx.wins[pid] ELSE 0]]]
  /\ UNCHANGED matchVars
  /\ UNCHANGED <<last, sharedRanks>>

SimNext == SimStart \/ SimTurn \/ SimStall \/ SimReport

SpecSim == SimInit /\ [][SimNext]_vars

----------------------------------------------------------------------------
(* The configuration boundary: setSharedRanks, resetSharedRanks and         *)
(* importSharedDeckTemplateJson.  Values that come from outside are kept    *)
(* with their JavaScript type: t is "string", "number", "object", "array",  *)
(* "null" or "undefined".  fx holds the shared deck template and what the   *)
(* last call returned.                                                      *)

JStr(str) == [t |-> "string", s |-> str]

JNum(num) == [t |-> "number", n |-> num]

JUndef == [t |-> "undefined"]

JNull == [t |-> "null"]

(* an object literal: its entries in order *)
JObj(entries) == [t |-> "object", entries |-> entries]

JArr(items) == [t |-> "array", items |-> items]

Entry(key, value) == [key |-> key, value |-> value]

(* String.prototype.trim on the strings that are supplied *)
trim(str) ==
  CASE str = " cadet " -> "cadet"
    [] str = " " -> ""
    [] OTHER -> str

(* every key a resource key, every value a number *)
validAmounts(obj) ==
  \A i \in 1..Len(obj.entries) :
    obj.entries[i].key \in Keys /\ obj.entries[i].value.t = "number"

isValidRank(rank) ==
  IF rank.t # "object" THEN FALSE
  ELSE IF rank.id.t # "string" \/ trim(rank.id.s) = "" THEN FALSE
  ELSE IF rank.name.t # "string" \/ trim(rank.name.s) = "" THEN FALSE
  ELSE IF rank.requirement.t # "object" THEN FALSE
  ELSE IF rank.cost.t # "undefined" /\ rank.cost.t # "object" THEN FALSE
  ELSE IF rank.bonus.t # "undefined" /\ rank.bonus.t # "object" THEN FALSE
  ELSE /\ validAmounts(rank.requirement)
       /\ validAmounts(IF rank.cost.t = "undefined" THEN JObj(<<>>) ELSE rank.cost)
       /\ validAmounts(IF rank.bonus.t = "undefined" THEN JObj(<<>>) ELSE rank.bonus)

(* { ...obj } read with `?? 0`: the last entry of a key counts *)
amountsOf(obj) ==
  [k \in Keys |->
     IF obj.t = "object" /\ \E i \in 1..Len(obj.entries) : obj.entries[i].key = k
       THEN obj.entries[CHOOSE i \in 1..Len(obj.entries) :
                          /\ obj.entries[i].key = k
                          /\ \A j \in (i + 1)..Len(obj.entries) : obj.entries[j].key # k].value.n
       ELSE 0]

cloneRank(rank) ==
  [id |-> trim(rank.id.s), requirement |-> amountsOf(rank.requirement),
   cost |-> amountsOf(rank.cost), bonus |-> amountsOf(rank.bonus)]

(* setSharedRanks without the comparison of the ids *)
setSharedRanks_duplicatesKept(next) ==
  IF next.t # "array" \/ Len(next.items) = 0 THEN [ok |-> FALSE, ranks |-> sharedRanks]
  ELSE IF \E i \in 1..Len(next.items) : ~isValidRank(next.items[i])
    THEN [ok |-> FALSE, ranks |-> sharedRanks]
  ELSE [ok |-> TRUE, ranks |-> [i \in 1..Len(next.items) |-> cloneRank(next.items[i])]]

(* ok: the value returned; ranks: sharedRanks after the call *)
setSharedRanks(next) ==
  IF next.t # "array" \/ Len(next.items) = 0 THEN [ok |-> FALSE, ranks |-> sharedRanks]
  ELSE IF \E i \in 1..Len(next.items) : ~isValidRank(next.items[i])
    THEN [ok |-> FALSE, ranks |-> sharedRanks]
  ELSE IF Cardinality({trim(next.items[i].id.s) : i \in 1..Len(next.items)}) # Len(next.items)
    THEN [ok |-> FALSE, ranks |-> sharedRanks]
  ELSE [ok |-> TRUE, ranks |-> [i \in 1..Len(next.items) |-> cloneRank(next.items[i])]]

resetSharedRanks == baseRanks

validCategories == {"LYAP", "SCANDAL", "SUPPORT", "DECISION", "NEUTRAL", "VVNZ", "LEGENDARY"}

validEffectResources == {"time", "reputation", "discipline", "documents", "tech", "rank"}

validEffectRow(effect) ==
  /\ effect.t = "object"
  /\ effect.resource.t = "string" /\ effect.resource.s \in validEffectResources
  /\ effect.value.t = "number"

(* JNull stands for the null result *)
parseCard(value) ==
  IF value.t # "object" THEN JNull
  ELSE IF value.id.t # "string" \/ value.title.t # "string" THEN JNull
  ELSE IF value.category.t # "string" \/ value.category.s \notin validCategories THEN JNull
  ELSE IF value.effects.t = "undefined" THEN Card(value.id.s, value.category.s, <<>>)
  ELSE IF value.effects.t # "array" THEN JNull
  ELSE IF \E i \in 1..Len(value.effects.items) : ~validEffectRow(value.effects.items[i]) THEN JNull
  ELSE Card(value.id.s, value.category.s,
            [i \in 1..Len(value.effects.items) |->
               Eff(value.effects.items[i].resource.s, value.effects.items[i].value.n)])

allParsed(arr) == \A i \in 1..Len(arr.items) : parseCard(arr.items[i]) # JNull

parsedCards(arr) == [i \in 1..Len(arr.items) |-> parseCard(arr.items[i])]

(* importSharedDeckTemplateJson accepting what parseCard let through *)
importSharedDeckTemplateJson_badCardsDropped(text, template) ==
  IF text.json # "ok" THEN [ok |-> FALSE, error |-> "Invalid JSON", template |-> template]
  ELSE IF text.value.t # "object"
    THEN [ok |-> FALSE, error |-> "Template must be an object", template |-> template]
  ELSE IF text.value.deck.t # "array" \/ text.value.legendaryDeck.t # "array"
    THEN [ok |-> FALSE, error |-> "Template must contain deck and legendaryDeck arrays",
          template |-> template]
  ELSE [ok |-> TRUE, error |-> "",
        template |-> [deck |-> SelectSeq(parsedCards(text.value.deck), LAMBDA c : c # JNull),
                      legendaryDeck |-> SelectSeq(parsedCards(text.value.legendaryDeck),
                                                  LAMBDA c : c # JNull)]]

(* text.json: whether JSON.parse returns ("ok") or throws; template: the   *)
(* shared deck template after the call                                     *)
importSharedDeckTemplateJson(text, template) ==
  IF text.json # "ok" THEN [ok |-> FALSE, error |-> "Invalid JSON", template |-> template]
  ELSE IF text.value.t # "object"
    THEN [ok |-> FALSE, error |-> "Template must be an object", template |-> template]
  ELSE IF text.value.deck.t # "array" \/ text.value.legendaryDeck.t # "array"
    THEN [ok |-> FALSE, error |-> "Template must contain deck and legendaryDeck arrays",
          template |-> template]
  ELSE IF ~allParsed(text.value.deck) \/ ~allParsed(text.value.legendaryDeck)
    THEN [ok |-> FALSE, error |-> "One or more cards have invalid schema", template |-> template]
  ELSE [ok |-> TRUE, error |-> "",
        template |-> [deck |-> parsedCards(text.value.deck),
                      legendaryDeck |-> parsedCards(text.value.legendaryDeck)]]

defaultSharedDeckTemplate ==
  [deck |-> << Card("lyap-01", "LYAP", <<>>), Card("scandal-01", "SCANDAL", <<>>),
               Card("support-01", "SUPPORT", <<>>), Card("decision-01", "DECISION", <<>>),
               Card("neutral-01", "NEUTRAL", <<>>), Card("vvnz-01", "VVNZ", <<>>),
               Card("lyap-02", "LYAP", <<>>), Card("support-02", "SUPPORT", <<>>),
               Card("scandal-02", "SCANDAL", <<>>), Card("decision-02", "DECISION", <<>>) >>,
   legendaryDeck |-> << Card("legendary-01", "LEGENDARY", <<>>), Card("legendary-02", "LEGENDARY", <<>>),
                        Card("legendary-03", "LEGENDARY", <<>>), Card("legendary-04", "LEGENDARY", <<>>),
                        Card("legendary-05", "LEGENDARY", <<>>) >>]

(* the calls that are made: rank lists of up to MaxLadder entries and deck *)
(* arrays of up to MaxTemplate cards, well-formed or with one defect       *)
MaxLadder == 2

MaxTemplate == 1

RankInput(id, name, requirement, cost, bonus) ==
  [t |-> "object", id |-> id, name |-> name, requirement |-> requirement, cost |-> cost, bonus |-> bonus]

GoodRankInputs ==
  { RankInput(JStr("cadet"), JStr("Name"), JObj(<<>>), JUndef, JUndef),
    RankInput(JStr(" cadet "), JStr("Name"), JObj(<<Entry("reputation", JNum(3))>>), JUndef, JUndef),
    RankInput(JStr("captain"), JStr("Name"), JObj(<<Entry("reputation", JNum(3))>>),
              JObj(<<Entry("time", JNum(1))>>), JObj(<<>>)) }

BadRankInputs ==
  { JNull,
    RankInput(JNum(7), JStr("Name"), JObj(<<>>), JUndef, JUndef),
    RankInput(JStr(" "), JStr("Name"), JObj(<<>>), JUndef, JUndef),
    RankInput(JStr("cadet"), JUndef, JObj(<<>>), JUndef, JUndef),
    RankInput(JStr("cadet"), JStr(" "), JObj(<<>>), JUndef, JUndef),
    RankInput(JStr("captain"), JStr("Name"), JUndef, JUndef, JUndef),
    RankInput(JStr("cadet"), JStr("Name"), JObj(<<Entry("money", JNum(1))>>), JUndef, JUndef),
    RankInput(JStr("cadet"), JStr("Name"), JObj(<<>>), JNull, JUndef),
    RankInput(JStr("cadet"), JStr("Name"), JObj(<<>>), JUndef, JObj(<<Entry("tech", JStr("2"))>>)) }

RankListInputs ==
  {JNull} \cup {JArr(l) : l \in SeqsUpTo(GoodRankInputs \cup BadRankInputs, MaxLadder)}

(* what a rank list is, told from how it was put together *)
RankListKind(next) ==
  IF next.t # "array" THEN "no list"
  ELSE IF Len(next.items) = 0 THEN "empty"
  ELSE IF \E i \in 1..Len(next.items) : next.items[i] \in BadRankInputs THEN "malformed"
  ELSE IF \E i, j \in 1..Len(next.items) :
            i # j /\ trim(next.items[i].id.s) = trim(next.items[j].id.s) THEN "duplicate"
  ELSE "valid"

CardInput(id, title, category, effects) ==
  [t |-> "object", id |-> id, title |-> title, category |-> category, effects |-> effects]

EffectInput(resource, value) == [t |-> "object", resource |-> resource, value |-> value]

GoodCardInputs ==
  { CardInput(JStr("c1"), JStr("One"), JStr("NEUTRAL"), JUndef),
    CardInput(JStr("c2"), JStr("Two"), JStr("VVNZ"), JArr(<<EffectInput(JStr("rank"), JNum(1))>>)) }

BadCardInputs ==
  { JNull,
    CardInput(JNum(1), JStr("One"), JStr("NEUTRAL"), JUndef),
    CardInput(JStr("c1"), JUndef, JStr("NEUTRAL"), JUndef),
    CardInput(JStr("c1"), JStr("One"), JStr("JOKER"), JUndef),
    CardInput(JStr("c1"), JStr("One"), JStr("NEUTRAL"), JObj(<<>>)),
    CardInput(JStr("c1"), JStr("One"), JStr("NEUTRAL"), JArr(<<EffectInput(JStr("money"), JNum(1))>>)),
    CardInput(JStr("c1"), JStr("One"), JStr("NEUTRAL"), JArr(<<EffectInput(JStr("time"), JStr("1"))>>)) }

DeckInputs ==
  {JUndef, JObj(<<>>)} \cup {JArr(l) : l \in SeqsUpTo(GoodCardInputs \cup BadCardInputs, MaxTemplate)}

LegendaryInputs ==
  { JUndef, JArr(<<>>),
    JArr(<<CardInput(JStr("l1"), JStr("Legend"), JStr("LEGENDARY"), JUndef)>>),
    JArr(<<CardInput(JStr("l1"), JStr("Legend"), JStr("legendary"), JUndef)>>) }

TemplateInput(deckValue, legendaryValue) ==
  [t |-> "object", deck |-> deckValue, legendaryDeck |-> legendaryValue]

TemplateTexts ==
  {[json |-> "invalid", value |-> JNull]}
    \cup {[json |-> "ok", value |-> v] : v \in {JNull, JNum(1)}}
    \cup {[json |-> "ok", value |-> TemplateInput(d, l)] : d \in DeckInputs, l \in LegendaryInputs}

HasBadCard(arr) ==
  /\ arr.t = "array"
  /\ \E i \in 1..Len(arr.items) :
       arr.items[i] \in BadCardInputs \/ arr.items[i].category = JStr("legendary")

(* what a text is, told from how it was put together *)
TemplateTextKind(text) ==
  IF text.json # "ok" THEN "invalid JSON"
  ELSE IF text.value.t # "object" THEN "no object"
  ELSE IF text.value.deck.t # "array" \/ text.value.legendaryDeck.t # "array" THEN "missing arrays"
  ELSE IF HasBadCard(text.value.deck) \/ HasBadCard(text.value.legendaryDeck) THEN "malformed card"
  ELSE "valid"

ConfigIdle ==
  [phase |-> "config", template |-> defaultSharedDeckTemplate,
   call |-> "none", kind |-> "none", ok |-> TRUE, error |-> ""]

ConfigInit ==
  /\ NoMatch
  /\ fx = ConfigIdle

SetSharedRanks ==
  /\ fx.phase = "config"
  /\ \E next \in RankListInputs :
       /\ sharedRanks' = setSharedRanks(next).ranks
       /\ fx' = [fx EXCEPT !.call = "setSharedRanks", !.kind = RankListKind(next),
                           !.ok = setSharedRanks(next).ok, !.error = ""]
  /\ UNCHANGED <<matchVars, last>>

ResetSharedRanks ==
  /\ fx.phase = "config"
  /\ sharedRanks' = resetSharedRanks
  /\ fx' = [fx EXCEPT !.call = "resetSharedRanks", !.kind = "valid", !.ok = TRUE, !.error = ""]
  /\ UNCHANGED <<matchVars, last>>

importStep(text, r) ==
  fx' = [fx EXCEPT !.call = "importSharedDeckTemplateJson", !.kind = TemplateTextKind(text),
                   !.ok = r.ok, !.error = r.error, !.template = r.template]

ImportSharedDeckTemplateJson ==
  /\ fx.phase = "config"
  /\ \E text \in TemplateTexts : importStep(text, importSharedDeckTemplateJson(text, fx.template))
  /\ UNCHANGED <<matchVars, last, sharedRanks>>

ConfigNext == SetSharedRanks \/ ResetSharedRanks \/ ImportSharedDeckTemplateJson

SpecConfig == ConfigInit /\ [][ConfigNext]_vars

----------------------------------------------------------------------------
(* A match during which the ladder of the module is replaced               *)
(* (specification SpecLadder)                                               *)

ShortLadder ==
  JArr(<< RankInput(JStr("cadet"), JStr("Cadet"), JObj(<<>>), JUndef, JUndef),
          RankInput(JStr("captain"), JStr("Captain"),
                    JObj(<<Entry("reputation", JNum(3)), Entry("discipline", JNum(3))>>),
                    JObj(<<Entry("time", JNum(1))>>), JUndef) >>)

ForeignLadder ==
  JArr(<< RankInput(JStr("private"), JStr("Private"), JObj(<<>>), JUndef, JUndef),
          RankInput(JStr("major"), JStr("Major"), JObj(<<>>), JUndef, JUndef) >>)

LadderInputs == {ShortLadder, ForeignLadder, JArr(<<>>)}

LadderInit ==
  /\ InitFrom({DeckPromotion})
  /\ fx = [phase |-> "none"]

LadderSet ==
  /\ \E next \in LadderInputs : sharedRanks' = setSharedRanks(next).ranks
  /\ UNCHANGED <<matchVars, last, fx>>

LadderReset ==
  /\ sharedRanks' = resetSharedRanks
  /\ UNCHANGED <<matchVars, last, fx>>

LadderNext == Next \/ LadderSet \/ LadderReset

SpecLadder == LadderInit /\ [][LadderNext]_vars

----------------------------------------------------------------------------
(* Properties of strict application (checked under SpecFx) *)

FxStrictDone == fx.phase = "strict"

(* C5: with a replacement list of exactly replacementCostUnits entries,     *)
(* strict application never reads past the end of the list and, when it     *)
(* succeeds, has read every entry.                                          *)
C5_CostEqualsConsumed ==
  (FxStrictDone /\ Len(fx.repl) = fx.cost) =>
     /\ fx.out.cause # "missing"
     /\ (fx.out.ok => fx.out.idx = Len(fx.repl))

RECURSIVE RefDebitUnits(_, _, _)
RefDebitUnits(st, r, n) ==
  IF n = 0 \/ ~st.ok THEN st
  ELSE IF st.res[r] > 0
    THEN RefDebitUnits([st EXCEPT !.res[r] = @ - 1], r, n - 1)
    ELSE IF Len(st.rest) < 1 \/ st.res[st.rest[1]] <= 0
      THEN [st EXCEPT !.ok = FALSE]
      ELSE LET a == [st EXCEPT !.res[st.rest[1]] = @ - 1, !.rest = Tail(@)]
           IN IF Len(a.rest) < 1 \/ a.res[a.rest[1]] <= 0
                THEN [st EXCEPT !.ok = FALSE]
                ELSE RefDebitUnits([a EXCEPT !.res[a.rest[1]] = @ - 1, !.rest = Tail(@)], r, n - 1)

RECURSIVE RefStrict(_, _, _)
RefStrict(st, effects, i) ==
  IF i > Len(effects) \/ ~st.ok THEN st
  ELSE LET e == effects[i] IN
    IF e.resource = "rank" THEN RefStrict(st, effects, i + 1)
    ELSE IF e.value >= 0
      THEN RefStrict([st EXCEPT !.res[e.resource] = @ + e.value], effects, i + 1)
      ELSE RefStrict(RefDebitUnits(st, e.resource, -e.value), effects, i + 1)

(* C7: a successful strict application leaves exactly the resources the     *)
(* payment rule prescribes and has consumed the whole list; a thrown        *)
(* failure is a missing entry or an entry naming a resource at 0.  Instance:*)
(* discipline 0, time >= 1, reputation >= 1, effect discipline -1: cost 2,  *)
(* <<time, reputation>> succeeds with both decremented, one entry rejected. *)
C7_StrictPaymentRule ==
  FxStrictDone =>
    LET ref == RefStrict([ok |-> TRUE, res |-> fx.res, rest |-> fx.repl], fx.effects, 1)
        instance == /\ fx.effects = <<[resource |-> "discipline", value |-> -1]>>
                    /\ fx.res["discipline"] = 0
                    /\ fx.res["time"] >= 1
                    /\ fx.res["reputation"] >= 1
    IN /\ (fx.out.ok /\ Len(fx.effects) > 0) =>
            /\ ref.ok
            /\ ref.rest = <<>>
            /\ ref.res = fx.out.resources
            /\ fx.out.idx = Len(fx.repl)
       /\ fx.out.threw => (~ref.ok /\ fx.out.cause \in {"missing", "empty"})
       /\ instance =>
            /\ fx.cost = 2
            /\ (fx.repl = <<"time", "reputation">> =>
                  /\ fx.out.ok
                  /\ fx.out.resources = [fx.res EXCEPT !["time"] = @ - 1, !["reputation"] = @ - 1])
            /\ (Len(fx.repl) = 1 => ~fx.out.ok)

C7_Witness ==
  /\ FxStrictDone
  /\ fx.effects = <<[resource |-> "discipline", value |-> -1]>>
  /\ fx.res["discipline"] = 0
  /\ fx.repl = <<"time", "reputation">>
  /\ fx.out.ok
  /\ fx.out.resources["time"] = fx.res["time"] - 1

----------------------------------------------------------------------------
(* Properties of the match (checked under Spec) *)

PreconditionViolations ==
  {"actor", "stage", "card", "target", "limit", "promoted", "ineligible"}

(* C1: in every reachable match state each of the five resource values of   *)
(* every player is an integer >= 0.                                         *)
C1_ResourcesNonNegative ==
  \A p \in Players : \A k \in Keys : resources[p][k] \in Nat

C1_Witness ==
  /\ last.card = "DECISION"
  /\ last.accepted
  /\ promotedThisTurn[last.player]
  /\ \A p \in Players : resources[p]["time"] = 0

(* C2: a move that violates a precondition (not the current player, wrong   *)
(* stage, card not in hand, LYAP without a valid target, hand at the limit, *)
(* already promoted, promotion ineligible) is rejected, has written nothing *)
(* and leaves the whole match state as it was.                              *)
C2_RejectedMoveChangesNothing ==
  [][last'.violation \in PreconditionViolations =>
       (~last'.accepted /\ ~last'.dirty /\ UNCHANGED matchVars)]_vars

C2_Witness ==
  /\ last.move = "drawCard"
  /\ last.violation = "limit"
  /\ ~last.accepted
  /\ Len(hands[last.player]) = HAND_LIMIT

(* C3: whenever the strict application of a played card to the caller fails *)
(* (wrong length, missing entry, entry naming a resource at 0, also after   *)
(* earlier effects were already paid) the move is rejected and the caller's *)
(* resources, rank and hand are what they were; the card stays in hand.     *)
C3_StrictFailureAtomic ==
  [][last'.strict = "failed" =>
       /\ ~last'.accepted
       /\ resources'[last'.player] = resources[last'.player]
       /\ ranks'[last'.player] = ranks[last'.player]
       /\ hands'[last'.player] = hands[last'.player]
       /\ discard' = discard]_vars

C3_Witness ==
  /\ last.move = "playCard"
  /\ last.card = "VVNZ"
  /\ last.strict = "failed"
  /\ last.dirty
  /\ ~last.accepted

(* C4: when a DECISION card is played and the strict application to the     *)
(* caller fails, the move is rejected and no player's state changes, also   *)
(* not that of the seats processed in soft mode before the caller.          *)
C4_DecisionFailureChangesNobody ==
  [][(last'.card = "DECISION" /\ last'.strict = "failed") =>
       (~last'.accepted /\ UNCHANGED matchVars)]_vars

C4_Witness ==
  /\ last.card = "DECISION"
  /\ last.strict = "failed"
  /\ last.player = playOrder[2]
  /\ last.dirtyOthers
  /\ ~last.accepted

(* C8: every player's rank always names a ladder position, and promoteRank  *)
(* refuses a player who holds the last ladder rank.                         *)
C8_RankOnLadder ==
  \A p \in Players :
    /\ findRankIndex(getActiveRanks, ranks[p]) \in 0..(Len(getActiveRanks) - 1)
    /\ ranks[p] = getTopRankId => ~promoteRank(G, p, Len(playOrder)).ok

C8_Witness ==
  /\ \E p \in Players : ranks[p] = getTopRankId
  /\ \E p \in Players : ranks[p] = getActiveRanks[1].id
  /\ \E i \in 1..Len(discard) : discard[i].id = "lyap-01"
  /\ last.accepted

(* C9: no hand ever holds more than HAND_LIMIT cards; the overflow loop     *)
(* moves the excess of a longer hand to the discard pile, oldest first.     *)
C9_HandWithinLimit ==
  /\ \A p \in Players : Len(hands[p]) <= HAND_LIMIT
  /\ \A n \in 0..(HAND_LIMIT + 2) :
       LET h == [i \in 1..n |-> [id |-> i]]
           t == trimOverflow(h, <<>>)
           excess == Max(0, n - HAND_LIMIT)
       IN /\ t.discard = SubSeq(h, 1, excess)
          /\ t.hand = SubSeq(h, excess + 1, n)

C9_Witness ==
  /\ last.move = "drawCard"
  /\ last.accepted
  /\ Len(hands[last.player]) = HAND_LIMIT

(* C10 as claimed: every player on the last ladder rank is the winner of    *)
(* the match.                                                               *)
C10_EveryTopRankPlayerWins ==
  \A p \in Players : ranks[p] = getTopRankId => gameover = p

(* C10 amended: as soon as some player is on the last ladder rank the match *)
(* is over, whatever is left in deck and hands; the winner is the first     *)
(* such player in play order; no later move changes the match.              *)
C10_TopRankEndsMatch ==
  /\ []((\E p \in Players : ranks[p] = getTopRankId) =>
          /\ gameover # NoWinner
          /\ ranks[gameover] = getTopRankId
          /\ \A i, j \in 1..Len(playOrder) :
               (playOrder[j] = gameover /\ i < j) => ranks[playOrder[i]] # getTopRankId)
  /\ [][gameover # NoWinner => UNCHANGED matchVars]_vars

C10_Witness ==
  /\ gameover # NoWinner
  /\ ranks[gameover] = getTopRankId
  /\ Len(deck) > 0
  /\ last.accepted

----------------------------------------------------------------------------
(* Properties of promote and getWinner (checked under SpecTable) *)

TablePromoteDone == fx.phase = "promote"

(* seat limit by player count, as stated: 1 up to 2 players, 2 up to 4, 3 above *)
SeatLimitOf(n) == <<1, 1, 2, 2, 3, 3, 3>>[n]

CallerHasNextRank ==
  findRankIndex(getActiveRanks, fx.G.ranks[fx.caller]) + 2 <= Len(getActiveRanks)

CallerNextPos == findRankIndex(getActiveRanks, fx.G.ranks[fx.caller]) + 2

OthersOnNextRank ==
  Cardinality({q \in SeatsOf(fx.order) \ {fx.caller} :
                 fx.G.ranks[q] = getActiveRanks[CallerNextPos].id})

(* C11: promote is rejected whenever the number of other players holding    *)
(* the caller's next ladder rank has reached the seat limit of the table    *)
(* (1 for at most 2 players, 2 for 3 or 4, 3 for more), whatever the        *)
(* caller's resources; nothing is written.                                  *)
C11_FullRankRejectsPromote ==
  (TablePromoteDone /\ CallerHasNextRank /\ OthersOnNextRank >= SeatLimitOf(Len(fx.order))) =>
     /\ fx.out.result = INVALID_MOVE
     /\ fx.out.G = fx.G

C11_Witness ==
  /\ TablePromoteDone
  /\ Len(fx.order) = 4
  /\ fx.caller = fx.cur
  /\ fx.stages[fx.caller] = PLAY_STAGE
  /\ ~fx.G.promotedThisTurn[fx.caller]
  /\ CallerHasNextRank
  /\ OthersOnNextRank = 2
  /\ \A k \in Keys : fx.G.resources[fx.caller][k] >= NeedOf(CallerNextPos)[k]
  /\ fx.out.result = INVALID_MOVE

----------------------------------------------------------------------------
(* Properties of the moves of a match (checked under Spec) *)

AllCards == UNION {{d[i] : i \in 1..Len(d)} : d \in Shuffles} \cup {cardLegendary}

CountIn(seq, c) == Cardinality({i \in 1..Len(seq) : seq[i] = c})

RECURSIVE CountInHands(_, _)
CountInHands(c, i) ==
  IF i > Len(playOrder) THEN 0 ELSE CountIn(hands[playOrder[i]], c) + CountInHands(c, i + 1)

(* number of copies of card c in deck, hands and discard pile together *)
CardCount(c) == CountIn(deck, c) + CountIn(discard, c) + CountInHands(c, 1)

(* C12: deck, hands and discard pile together always hold exactly the cards *)
(* of the shuffled template that was dealt (as a multiset: none lost, none  *)
(* duplicated), no step changes that multiset, and no step changes          *)
(* legendaryDeck.                                                           *)
C12_CardsConserved ==
  /\ [](\E d \in Shuffles : \A c \in AllCards : CardCount(c) = CountIn(d, c))
  /\ [][/\ \/ UNCHANGED <<deck, discard, hands>>
           \/ \A c \in AllCards : CardCount(c)' = CardCount(c)
        /\ legendaryDeck' = legendaryDeck]_vars

C12_Witness ==
  /\ last.move = "playCard"
  /\ last.accepted
  /\ Len(discard) >= 2
  /\ \E i \in 1..Len(discard) : discard[i].category = "LYAP"
  /\ \A p \in Players : Len(hands[p]) > 0

(* C13: between two turn begins each player is promoted by promote at most *)
(* once; promotedThisTurn[p] is true exactly when promote has promoted p    *)
(* since the last turn begin; a promote call by a player whose flag is set  *)
(* is rejected; right after a turn begin every flag is false.               *)
C13_OnePromotionPerTurn ==
  /\ [](\A p \in Players :
          /\ last.promos[p] <= 1
          /\ promotedThisTurn[p] <=> (last.promos[p] = 1))
  /\ [][(last'.move = "promote" /\ promotedThisTurn[last'.player]) => ~last'.accepted]_vars
  /\ [][currentPlayer' # currentPlayer => \A p \in Players : ~promotedThisTurn'[p]]_vars

C13_Witness ==
  /\ last.move = "promote"
  /\ last.violation = "promoted"
  /\ ~last.accepted
  /\ last.promos[last.player] = 1
  /\ PromoteEligible(last.player)

SeatAfter(p) ==
  LET i == CHOOSE j \in 1..Len(playOrder) : playOrder[j] = p
  IN IF i = Len(playOrder) THEN playOrder[1] ELSE playOrder[i + 1]

(* C14: drawCard is accepted only from the current player in stage draw;    *)
(* playCard and promote only from the current player in stage play; pass    *)
(* only from the current player in stage play or end, and then it is        *)
(* accepted whatever else holds and the turn goes to the next seat; no move *)
(* of a seat that is not the current player is accepted.                    *)
C14_MoveGating ==
  [][/\ (last'.accepted /\ last'.move = "drawCard") =>
          (last'.player = currentPlayer /\ activePlayers[last'.player] = DRAW_STAGE)
     /\ (last'.accepted /\ last'.move \in {"playCard", "promote"}) =>
          (last'.player = currentPlayer /\ activePlayers[last'.player] = PLAY_STAGE)
     /\ (last'.accepted /\ last'.move = "pass") =>
          (last'.player = currentPlayer /\ activePlayers[last'.player] \in {PLAY_STAGE, END_STAGE})
     /\ (/\ last'.move = "pass"
         /\ last'.player = currentPlayer
         /\ activePlayers[last'.player] \in {PLAY_STAGE, END_STAGE}
         /\ gameover = NoWinner) =>
          /\ last'.accepted
          /\ currentPlayer' = SeatAfter(currentPlayer)
          /\ activePlayers'[currentPlayer] = IDLE_STAGE
          /\ activePlayers'[currentPlayer'] \in {DRAW_STAGE, PLAY_STAGE}
     /\ (last'.move # "none" /\ (last'.player # currentPlayer \/ activePlayers[last'.player] = IDLE_STAGE)) =>
          ~last'.accepted]_vars

(* a pass straight from stage play: nothing was played or auto-played yet *)
C14_Witness ==
  /\ last.move = "pass"
  /\ last.accepted
  /\ discard = <<>>
  /\ Len(deck) > 0
  /\ currentPlayer = SeatAfter(last.player)
  /\ activePlayers[last.player] = IDLE_STAGE
  /\ activePlayers[currentPlayer] = DRAW_STAGE

(* C15: an accepted drawCard removes exactly the top (last) card of the     *)
(* deck.  A LYAP is applied in soft mode to the drawer only, a SCANDAL in   *)
(* soft mode to every seat, the drawer included; either goes to the end of  *)
(* the discard pile and the stage becomes end.  Any other card goes to the  *)
(* end of the drawer's hand, nobody's resources or rank change and the      *)
(* stage becomes play.                                                      *)
C15_DrawCardEffect ==
  [][(last'.move = "drawCard" /\ last'.accepted) =>
       /\ Len(deck) > 0
       /\ deck' = SubSeq(deck, 1, Len(deck) - 1)
       /\ promotedThisTurn' = promotedThisTurn
       /\ G' = DrawExpect(last'.player).G
       /\ activePlayers'[last'.player] = DrawExpect(last'.player).stage
       /\ LET p == last'.player
              card == deck[Len(deck)]
          IN IF card.category \in {"LYAP", "SCANDAL"}
               THEN /\ discard' = Append(discard, card)
                    /\ hands' = hands
                    /\ activePlayers'[p] = END_STAGE
                    /\ \A q \in Players :
                         IF q = p \/ card.category = "SCANDAL"
                           THEN /\ resources'[q] = applyCardEffectsSoft(resources[q], ranks[q], card.effects).resources
                                /\ ranks'[q] = applyCardEffectsSoft(resources[q], ranks[q], card.effects).rank
                           ELSE resources'[q] = resources[q] /\ ranks'[q] = ranks[q]
               ELSE /\ discard' = discard
                    /\ hands' = [hands EXCEPT ![p] = Append(hands[p], card)]
                    /\ resources' = resources
                    /\ ranks' = ranks
                    /\ activePlayers'[p] = PLAY_STAGE]_vars

C15_Witness ==
  /\ last.move = "drawCard"
  /\ last.accepted
  /\ Len(discard) > 0
  /\ discard[Len(discard)].category = "SCANDAL"
  /\ activePlayers[last.player] = END_STAGE
  /\ \A q \in Players : ranks[q] = getTopRankId

(* the hand without one copy of the card that ends the new discard pile *)
PlayedCardMoved ==
  /\ Len(discard') = Len(discard) + 1
  /\ SubSeq(discard', 1, Len(discard)) = discard
  /\ \E i \in 1..Len(hands[last'.player]) :
       /\ hands[last'.player][i] = discard'[Len(discard')]
       /\ hands'[last'.player] = RemoveAt(hands[last'.player], i)
  /\ \A q \in Players \ {last'.player} : hands'[q] = hands[q]
  /\ deck' = deck

C17_PlayStrictCards ==
  [][/\ (last'.move = "playCard" /\ last'.strict = "failed") => ~last'.accepted
     /\ (last'.move = "playCard" /\ last'.accepted /\ last'.card \in StrictCategories) =>
          /\ last'.strict = "ok"
          /\ G' = PlayExpect(last'.player, last'.args).G
          /\ PlayedCardMoved
          /\ discard'[Len(discard')].category = last'.card
          /\ activePlayers'[last'.player] = END_STAGE
          /\ LET p == last'.player
                 effects == discard'[Len(discard')].effects
             IN /\ \E repl \in MoveReplacementLists :
                      LET strict == applyCardEffects(resources[p], ranks[p], effects, repl)
                      IN strict.ok /\ resources'[p] = strict.resources /\ ranks'[p] = strict.rank
                /\ \A q \in Players \ {p} :
                     IF last'.card = "DECISION"
                       THEN /\ resources'[q] = applyCardEffectsSoft(resources[q], ranks[q], effects).resources
                            /\ ranks'[q] = applyCardEffectsSoft(resources[q], ranks[q], effects).rank
                       ELSE resources'[q] = resources[q] /\ ranks'[q] = ranks[q]]_vars

(* a DECISION the caller paid with two units of reputation while the other *)
(* seat was charged by the planner                                          *)
C17_Witness ==
  /\ last.move = "playCard"
  /\ last.card = "DECISION"
  /\ last.accepted
  /\ resources[last.player]["time"] = 0
  /\ resources[last.player]["reputation"] = 0
  /\ \E q \in Players \ {last.player} :
       /\ resources[q]["time"] = 0
       /\ resources[q]["reputation"] = 1
       /\ resources[q]["discipline"] = 1

----------------------------------------------------------------------------
(* Properties of promote and getWinner, continued (checked under SpecTable) *)

CallerMayPromote ==
  /\ fx.caller = fx.cur
  /\ fx.stages[fx.caller] = PLAY_STAGE
  /\ ~fx.G.promotedThisTurn[fx.caller]
  /\ CallerHasNextRank
  /\ OthersOnNextRank < SeatLimitOf(Len(fx.order))
  /\ \A k \in Keys :
       /\ fx.G.resources[fx.caller][k] >= getActiveRanks[CallerNextPos].requirement[k]
       /\ fx.G.resources[fx.caller][k] >= getActiveRanks[CallerNextPos].cost[k]

TableWinnerDone == fx.phase = "winner"

FiveSum(v) == v["time"] + v["reputation"] + v["discipline"] + v["documents"] + v["tech"]

SeatPos(order, pid) == CHOOSE i \in 1..Len(order) : order[i] = pid

(* C19: when no player holds the last ladder rank a winner is declared if   *)
(* and only if the deck is empty and every hand is empty; the winner's sum  *)
(* of the five resource values is maximal and every seat before the winner  *)
(* in player order has a smaller sum.  With cards left in the deck or in    *)
(* some hand no winner is declared.                                         *)
C19_ResourceWinner ==
  (TableWinnerDone /\ \A q \in SeatsOf(fx.order) : fx.G.ranks[q] # getTopRankId) =>
     LET seats == SeatsOf(fx.order)
         exhausted == Len(fx.G.deck) = 0 /\ \A q \in seats : Len(fx.G.hands[q]) = 0
     IN /\ (fx.out # "none") <=> exhausted
        /\ exhausted =>
             /\ fx.out \in seats
             /\ \A q \in seats : FiveSum(fx.G.resources[q]) <= FiveSum(fx.G.resources[fx.out])
             /\ \A i \in 1..(SeatPos(fx.order, fx.out) - 1) :
                  FiveSum(fx.G.resources[fx.order[i]]) < FiveSum(fx.G.resources[fx.out])

(* four seats, nothing left to draw or play, seats 2 and 4 tied on the     *)
(* largest sum: seat 2 wins                                                 *)
C19_Witness ==
  /\ TableWinnerDone
  /\ Len(fx.order) = 4
  /\ \A q \in SeatsOf(fx.order) : fx.G.ranks[q] # getTopRankId /\ Len(fx.G.hands[q]) = 0
  /\ Len(fx.G.deck) = 0
  /\ fx.out = fx.order[2]
  /\ FiveSum(fx.G.resources[fx.order[4]]) = FiveSum(fx.G.resources[fx.order[2]])
  /\ FiveSum(fx.G.resources[fx.order[1]]) < FiveSum(fx.G.resources[fx.order[2]])

----------------------------------------------------------------------------
(* Properties of soft application (checked under SpecFx) *)

FxSoftDone == fx.phase = "soft"

(* C20: soft application always returns, whatever the effects and the       *)
(* non-negative resources, and its summary is what was applied: per         *)
(* resource the value after minus the value before, for the rank the change *)
(* of the ladder index after clamping, on the planned strict path and on    *)
(* the clamping fallback alike.                                             *)
C20_SoftSummaryIsApplied ==
  FxSoftDone =>
    /\ fx.out.path \in {"empty", "strict", "fallback"}
    /\ \A k \in Keys : fx.out.summary.resources[k] = fx.out.resources[k] - fx.res[k]
    /\ fx.out.summary.rank =
         findRankIndex(getActiveRanks, fx.out.rank) - findRankIndex(getActiveRanks, fx.rank)

(* the parts of C20 taken one by one *)
C20_ResourceSummaryIsApplied ==
  FxSoftDone => \A k \in Keys : fx.out.summary.resources[k] = fx.out.resources[k] - fx.res[k]

C20_RankSummaryOnStrictPath ==
  (FxSoftDone /\ fx.out.path # "fallback") =>
     fx.out.summary.rank =
       findRankIndex(getActiveRanks, fx.out.rank) - findRankIndex(getActiveRanks, fx.rank)

C20_FallbackStartsFromInput ==
  (FxSoftDone /\ fx.out.path = "fallback") => fx.out.start = fx.res

----------------------------------------------------------------------------
(* Properties of the simulator (checked under SpecSim) *)

SimSeats == SeatsOf(TableOrder(fx.players))

RECURSIVE SumSeatWins(_, _, _)
SumSeatWins(seatWins, order, i) ==
  IF i > Len(order) THEN 0
  ELSE (IF order[i] \in DOMAIN seatWins THEN seatWins[order[i]] ELSE 0) + SumSeatWins(seatWins, order, i + 1)

(* C21: every simulated match, stalled or not, is credited to exactly one  *)
(* seated player: after i matches the win counts of the seats add up to i,  *)
(* and the report of a run of N matches has seat wins adding up to N,       *)
(* finished + stalled = N and rankWins + scoreWins = N.                     *)
C21_EveryMatchCredited ==
  /\ DOMAIN fx.wins \subseteq SimSeats
  /\ SumSeatWins(fx.wins, TableOrder(fx.players), 1) = fx.i
  /\ fx.i > 0 => fx.result.winner \in SimSeats
  /\ fx.done =>
       /\ fx.i = fx.simulations
       /\ SumSeatWins(fx.report.seatWins, TableOrder(fx.players), 1) = fx.simulations
       /\ fx.report.finished + fx.report.stalled = fx.simulations
       /\ fx.report.rankWins + fx.report.scoreWins = fx.simulations

C21_Witness ==
  /\ fx.done
  /\ fx.simulations = 2
  /\ fx.report.stalled = 1
  /\ fx.report.finished = 1
  /\ fx.report.rankWins = 1
  /\ SumSeatWins(fx.report.seatWins, TableOrder(fx.players), 1) = 2

SimMatchOver == fx.i > 0 /\ ~fx.running

(* C22: a simulated match ends after at most maxTurns turns.  A match that  *)
(* is still running has had no winner at the end of any turn so far; one    *)
(* that returned not stalled returned the winner win detection gave at the  *)
(* end of its last turn; one that returned stalled used exactly maxTurns    *)
(* turns, names a seat of maximal resource sum and is not a win by rank.    *)
(* Every step of a running match is one more turn or its return, so that   *)
(* the turn count, bounded by maxTurns, measures the way to the return.     *)
C22_MatchTerminates ==
  /\ [](/\ fx.m.turns <= fx.maxTurns
        /\ (fx.running /\ fx.m.turns >= 1) => getWinner(fx.m.G, TableOrder(fx.players)) = "none"
        /\ (SimMatchOver /\ ~fx.result.stalled) =>
             /\ fx.result.winner # "none"
             /\ fx.result.winner = getWinner(fx.m.G, TableOrder(fx.players))
             /\ fx.result.turns = fx.m.turns
             /\ fx.result.turns >= 1
        /\ (SimMatchOver /\ fx.result.stalled) =>
             /\ fx.result.turns = fx.maxTurns
             /\ fx.m.turns = fx.maxTurns
             /\ getWinner(fx.m.G, TableOrder(fx.players)) = "none"
             /\ fx.result.winner \in SimSeats
             /\ \A q \in SimSeats :
                  ResourceSum(fx.m.G.resources[q]) <= ResourceSum(fx.m.G.resources[fx.result.winner])
             /\ ~fx.result.wonByRank)
  /\ [][fx.running => \/ fx'.running /\ fx'.m.turns = fx.m.turns + 1
                      \/ ~fx'.running /\ fx'.i = fx.i + 1 /\ fx'.m.turns <= fx.m.turns + 1]_vars

C22_Witness ==
  /\ SimMatchOver
  /\ fx.result.stalled
  /\ fx.result.turns = fx.maxTurns
  /\ fx.i = 2
  /\ fx.stalled = 1
  /\ \E q \in SimSeats : Len(fx.m.G.hands[q]) > 0

----------------------------------------------------------------------------
(* Properties of the player view (checked under Spec) *)

Reverse(seq) == [i \in 1..Len(seq) |-> seq[Len(seq) + 1 - i]]

(* decks of the length of d with other contents or another order *)
OtherDecks(d) ==
  {Reverse(d)}
    \cup {[d EXCEPT ![i] = c] : i \in 1..Len(d), c \in AllCards}
    \cup {SubSeq(t, 1, Len(d)) : t \in {u \in Shuffles : Len(u) >= Len(d)}}

(* C23: while the match is not over, the deck of every seat's view has the  *)
(* length of the deck and holds the same placeholder in every position, the *)
(* view is the same for every deck of that length in place of the deck, and *)
(* every hand, the viewer's and the others', shows its cards, in order.     *)
C23_ViewHidesDeck ==
  gameover = NoWinner =>
    \A p \in Players :
      LET view == playerView(G, FALSE, p)
      IN /\ Len(view.deck) = Len(deck)
         /\ \A i \in 1..Len(deck) : view.deck[i] = hiddenCard
         /\ \A d \in OtherDecks(deck) : playerView([G EXCEPT !.deck = d], FALSE, p) = view
         /\ \A q \in Players :
              /\ Len(view.hands[q]) = Len(hands[q])
              /\ \A i \in 1..Len(hands[q]) :
                   /\ view.hands[q][i].id = hands[q][i].id
                   /\ view.hands[q][i].category = hands[q][i].category
                   /\ view.hands[q][i].effects = hands[q][i].effects

C23_Witness ==
  /\ gameover = NoWinner
  /\ last.move # "none"
  /\ Len(deck) >= 2
  /\ \E i, j \in 1..Len(deck) : deck[i] # deck[j]
  /\ \A p \in Players : Len(hands[p]) >= 2

----------------------------------------------------------------------------
(* The draw-then-play scenario (checked under SpecScenario) *)

ScenarioActor(p) ==
  /\ currentPlayer = p
  /\ gameover = NoWinner
  /\ resources[p] = Vec(0, 0, 1, 0, 0)
  /\ discard = <<>>

(* CardA is the last element of the deck, the card drawCard takes *)
ScenarioStart(p) ==
  /\ ScenarioActor(p)
  /\ activePlayers[p] = DRAW_STAGE
  /\ hands[p] = <<>>
  /\ \E e \in ScenarioLyapEffects : deck = <<cardB(e), cardA>>

(* the deck as the scenario writes it: [CardA, CardB] *)
ScenarioStartAsWritten(p) ==
  /\ ScenarioActor(p)
  /\ activePlayers[p] = DRAW_STAGE
  /\ hands[p] = <<>>
  /\ \E e \in ScenarioLyapEffects : deck = <<cardA, cardB(e)>>

ScenarioDrawn(p) ==
  /\ ScenarioActor(p)
  /\ activePlayers[p] = PLAY_STAGE
  /\ hands[p] = <<cardA>>
  /\ Len(deck) = 1

ScenarioPlay == [cardId |-> "CardA", repl |-> <<>>, target |-> "none"]

ScenarioDrawResult(p) ==
  /\ hands'[p] = <<cardA>>
  /\ activePlayers'[p] = PLAY_STAGE
  /\ resources' = resources
  /\ discard' = <<>>
  /\ Len(deck') = 1

(* the scenario with deck = [CardA, CardB] as written: drawCard puts CardA *)
(* into the hand and the stage becomes play                                *)
C24_ScenarioAsWritten ==
  [][\A p \in Players :
       (ScenarioStartAsWritten(p) /\ last'.move = "drawCard" /\ last'.player = p) =>
          (last'.accepted /\ ScenarioDrawResult(p))]_vars

(* C24: with CardA the last element of the deck (deck = [CardB, CardA]),    *)
(* the active seat in stage draw with an empty hand and resources           *)
(* discipline 1, all others 0: drawCard is accepted, CardA enters the hand  *)
(* and the stage becomes play; then playCard('CardA', []) is accepted with  *)
(* no replacement, discipline becomes 0, CardA is in the discard pile and   *)
(* the stage is end.                                                        *)
C24_ScenarioTopLast ==
  /\ [](\A p \in Players :
          /\ ScenarioStart(p) => drawCard(G, currentPlayer, activePlayers, playOrder, p).result = "ok"
          /\ ScenarioDrawn(p) =>
               /\ replacementCostUnits(resources[p], cardA.effects) = 0
               /\ playCard(G, currentPlayer, activePlayers, playOrder, p, "CardA", <<>>, "none").result = "ok")
  /\ [][\A p \in Players :
          /\ (ScenarioStart(p) /\ last'.move = "drawCard" /\ last'.player = p) =>
               (last'.accepted /\ ScenarioDrawResult(p) /\ ScenarioDrawn(p)')
          /\ (ScenarioDrawn(p) /\ last'.move = "playCard" /\ last'.player = p
                /\ last'.violation = "none" /\ last'.card = "NEUTRAL" /\ last'.strict = "ok") =>
               /\ last'.accepted
               /\ last'.args.cardId = "CardA"
               /\ last'.args.repl = <<>>
               /\ resources'[p] = ZeroVec
               /\ \A q \in Players \ {p} : resources'[q] = resources[q]
               /\ hands'[p] = <<>>
               /\ discard' = <<cardA>>
               /\ deck' = deck
               /\ activePlayers'[p] = END_STAGE]_vars

C24_Witness ==
  /\ last.move = "playCard"
  /\ last.accepted
  /\ last.args = ScenarioPlay
  /\ discard = <<cardA>>
  /\ Len(deck) = 1
  /\ deck[1].category = "LYAP"
  /\ resources[last.player] = ZeroVec
  /\ hands[last.player] = <<>>
  /\ activePlayers[last.player] = END_STAGE

----------------------------------------------------------------------------
(* C25: the ladder of a match is the one consumed at its setup: whatever   *)
(* setSharedRanks or resetSharedRanks calls happen between two moves,      *)
(* every ranks[player] is a position of the setup ladder and a match is    *)
(* only ended over a rank when a seat holds the top rank of the setup      *)
(* ladder.                                                                 *)
SetupLadderIds == {baseRanks[i].id : i \in 1..Len(baseRanks)}

CardsLeft == Len(deck) > 0 \/ \E p \in Players : Len(hands[p]) > 0

C25_SetupLadderGoverns ==
  /\ \A p \in Players : ranks[p] \in SetupLadderIds
  /\ (gameover # NoWinner /\ CardsLeft) => ranks[gameover] = baseRanks[Len(baseRanks)].id

(* C26: a rejected configuration update returns a value and changes        *)
(* nothing: setSharedRanks returns false for no list, an empty list, a     *)
(* malformed rank or duplicate ids; importSharedDeckTemplateJson returns   *)
(* ok false with an error for invalid JSON, a non-object, missing arrays   *)
(* or a malformed card; the ladder and the template stay as they were.     *)
RejectedRankKinds == {"no list", "empty", "malformed", "duplicate"}

RejectedTextKinds == {"invalid JSON", "no object", "missing arrays", "malformed card"}

C26_RejectedUpdateChangesNothing ==
  [][/\ (fx'.call = "setSharedRanks" /\ fx'.kind \in RejectedRankKinds)
          => (fx'.ok = FALSE /\ sharedRanks' = sharedRanks /\ fx'.template = fx.template)
     /\ (fx'.call = "importSharedDeckTemplateJson" /\ fx'.kind \in RejectedTextKinds)
          => (/\ fx'.ok = FALSE /\ fx'.error # ""
              /\ sharedRanks' = sharedRanks /\ fx'.template = fx.template)
     /\ (fx'.call # "resetSharedRanks" /\ fx'.kind = "valid") => fx'.ok = TRUE]_vars

C26_Witness ==
  /\ fx.phase = "config"
  /\ fx.call = "setSharedRanks" /\ fx.kind = "duplicate" /\ fx.ok = FALSE
  /\ sharedRanks # baseRanks
  /\ fx.template # defaultSharedDeckTemplate

----------------------------------------------------------------------------
(* C27: soft application goes through strict application with a planned   *)
(* list whenever some replacement list exists that strict application      *)
(* accepts for the same resources, and clamps only when none exists.       *)
(* A list naming a resource that is never positive is refused at that      *)
(* entry, so the lists to look at name resources held or gained.           *)
PayableKeys(res, effects) ==
  {k \in Keys : res[k] > 0 \/ \E i \in 1..Len(effects) :
                                 effects[i].resource = k /\ effects[i].value > 0}

SomeListAccepted(res, rankId, effects) ==
  \E repl \in [1..replacementCostUnits(res, effects) -> PayableKeys(res, effects)] :
    applyCardEffects(res, rankId, effects, repl).ok

C27_SoftPlansWheneverPossible ==
  (FxSoftDone /\ Len(fx.effects) > 0) =>
     (fx.out.path = "strict" <=> SomeListAccepted(fx.res, fx.rank, fx.effects))

----------------------------------------------------------------------------
(* C28: after the resource effects, the rank effects of a card move the    *)
(* ladder index to clamp(index + sum of the rank deltas, 0, length - 1),   *)
(* in strict application that succeeds and in soft application alike:      *)
(* only the sum counts, not the order or clamping in between.              *)
ClampIndex(i) == Max(0, Min(Len(getActiveRanks) - 1, i))

FxApplied ==
  \/ fx.phase = "strict" /\ fx.out.ok
  \/ fx.phase = "soft"

C28_RankMovesBySum ==
  FxApplied =>
    findRankIndex(getActiveRanks, fx.out.rank) =
      ClampIndex(findRankIndex(getActiveRanks, fx.rank) + SumRankEffects(fx.effects, 1))

----------------------------------------------------------------------------
(* C29: when a turn begins (at the start of the match and after every      *)
(* accepted pass that does not end the match) every promotedThisTurn flag  *)
(* is false, the current player is in the draw stage if the deck is not    *)
(* empty and in the play stage if it is, and every other seat is idle; at  *)
(* any time only the current player can be in a stage other than idle.     *)
TurnBegun ==
  /\ \A p \in Players : ~promotedThisTurn[p]
  /\ activePlayers[currentPlayer] = (IF Len(deck) > 0 THEN DRAW_STAGE ELSE PLAY_STAGE)
  /\ \A p \in Players \ {currentPlayer} : activePlayers[p] = IDLE_STAGE

TurnBegins == last'.accepted /\ last'.move = "pass" /\ gameover' = NoWinner

C29_TurnBegin ==
  /\ [](last.move = "none" => TurnBegun)
  /\ [](\A p \in Players : activePlayers[p] # IDLE_STAGE => p = currentPlayer)
  /\ [][TurnBegins => TurnBegun']_vars

C29_Witness ==
  /\ last.accepted /\ last.move = "pass" /\ gameover = NoWinner
  /\ Len(deck) = 0
  /\ activePlayers[currentPlayer] = PLAY_STAGE
  /\ \E p \in Players : ranks[p] # getActiveRanks[1].id

----------------------------------------------------------------------------
(* C30: within one turn at most one drawCard and at most one playCard are  *)
(* accepted; while the deck is not empty and no card has been drawn in the *)
(* turn (the deck only changes by an accepted drawCard), no playCard,      *)
(* promote or pass is accepted; once the current player is in the end      *)
(* stage, pass is the only move that is accepted.                          *)
C30_TurnOrder ==
  /\ [](last.draws <= 1 /\ last.plays <= 1)
  /\ [][/\ deck' # deck => (last'.accepted /\ last'.move = "drawCard")
        /\ (last'.accepted /\ last.draws = 0 /\ Len(deck) > 0) => last'.move = "drawCard"
        /\ (last'.accepted /\ activePlayers[currentPlayer] = END_STAGE) => last'.move = "pass"]_vars

C30_Witness ==
  /\ last.accepted /\ last.move = "pass"
  /\ last.player # currentPlayer
  /\ Len(discard) >= 2
  /\ \E p \in Players : Len(hands[p]) > 0
  /\ gameover = NoWinner

----------------------------------------------------------------------------
(* C31: when soft application falls back (no plan, or the strict attempt   *)
(* is rejected), the resource effects are applied in list order to the     *)
(* resources the target had before the call: a gain adds its value, a loss *)
(* sets r to max(0, r + value); resources the effects do not name are left *)
(* alone, and the rank effects are applied after the resource effects.     *)
RECURSIVE AbsorbInOrder(_, _, _)
AbsorbInOrder(res, effects, i) ==
  IF i > Len(effects) THEN res
  ELSE IF effects[i].resource = "rank" THEN AbsorbInOrder(res, effects, i + 1)
  ELSE AbsorbInOrder([res EXCEPT ![effects[i].resource] =
                        IF effects[i].value < 0 THEN Max(0, @ + effects[i].value)
                        ELSE @ + effects[i].value],
                     effects, i + 1)

NamedKeys(effects) == {effects[i].resource : i \in 1..Len(effects)}

FxSoftFellBack == FxSoftDone /\ fx.out.path = "fallback"

C31_FallbackAbsorbs ==
  FxSoftFellBack =>
    /\ fx.out.resources = AbsorbInOrder(fx.res, fx.effects, 1)
    /\ \A k \in Keys \ NamedKeys(fx.effects) : fx.out.resources[k] = fx.res[k]
    /\ fx.out.rank = ShiftAll(fx.rank, fx.effects, 1)

C31_Witness ==
  /\ FxSoftFellBack
  /\ \E k \in Keys \ NamedKeys(fx.effects) : fx.res[k] > 0
  /\ \E k \in NamedKeys(fx.effects) \cap Keys : fx.res[k] > 0 /\ fx.out.resources[k] = 0
  /\ \E i \in 1..Len(fx.effects) : fx.effects[i].resource # "rank" /\ fx.effects[i].value > 0

----------------------------------------------------------------------------
(* C32: the planner pays each loss directly from the virtual balance       *)
(* first; for each unit still missing it picks twice the resource with the *)
(* highest positive virtual balance (equal balances: the first of time,    *)
(* reputation, discipline, documents, tech) and takes one from it after    *)
(* each pick; there is no plan exactly when some pick finds no positive    *)
(* balance, and a plan only names resources that were positive when picked. *)
KeyOrder == <<"time", "reputation", "discipline", "documents", "tech">>

GreedyPick(v) ==
  IF \A k \in Keys : v[k] <= 0 THEN "none"
  ELSE KeyOrder[CHOOSE i \in 1..Len(KeyOrder) :
                  /\ v[KeyOrder[i]] > 0
                  /\ \A k \in Keys : v[k] <= v[KeyOrder[i]]
                  /\ \A j \in 1..(i - 1) : v[KeyOrder[j]] < v[KeyOrder[i]]]

(* owed: the picks still to make for the loss last looked at *)
RECURSIVE GreedyPlan(_, _, _, _, _)
GreedyPlan(v, effects, i, owed, list) ==
  IF owed > 0
    THEN IF GreedyPick(v) = "none" THEN [ok |-> FALSE, list |-> <<>>]
         ELSE GreedyPlan([v EXCEPT ![GreedyPick(v)] = @ - 1], effects, i, owed - 1,
                         Append(list, GreedyPick(v)))
  ELSE IF i > Len(effects) THEN [ok |-> TRUE, list |-> list]
  ELSE IF effects[i].resource = "rank" \/ effects[i].value >= 0
    THEN GreedyPlan(v, effects, i + 1, 0, list)
  ELSE LET direct == Min(Max(0, v[effects[i].resource]), -effects[i].value)
       IN GreedyPlan([v EXCEPT ![effects[i].resource] = @ - direct], effects, i + 1,
                     2 * (-effects[i].value - direct), list)

C32_PlannerIsGreedy ==
  FxSoftDone =>
    planReplacementResources(fx.res, fx.effects) = GreedyPlan(fx.res, fx.effects, 1, 0, <<>>)

C32_Witness ==
  /\ FxSoftDone
  /\ fx.res["time"] = fx.res["reputation"]
  /\ LET plan == planReplacementResources(fx.res, fx.effects)
     IN /\ plan.ok
        /\ Len(plan.list) = 4
        /\ plan.list[1] = "time" /\ plan.list[2] = "reputation"

----------------------------------------------------------------------------
(* C33: strict application of no effects always succeeds and changes       *)
(* nothing; putting an effect of value 0 (on a resource or on rank)        *)
(* anywhere into an effect list changes neither replacementCostUnits, nor  *)
(* whether strict application with a given replacement list is accepted,   *)
(* nor the resources and rank that strict and soft application give.       *)
ZeroEffects == {Eff("discipline", 0), Eff("time", 0), Eff("rank", 0)}

InsertAt(effects, j, e) == SubSeq(effects, 1, j) \o <<e>> \o SubSeq(effects, j + 1, Len(effects))

SameStrict(a, b) ==
  /\ a.ok = b.ok
  /\ a.ok => (a.resources = b.resources /\ a.rank = b.rank)

SameSoft(a, b) == a.resources = b.resources /\ a.rank = b.rank

ZeroEffectUnobservable(effects, repl) ==
  \A z \in ZeroEffects : \A j \in 0..Len(effects) :
    LET with == InsertAt(effects, j, z)
    IN /\ replacementCostUnits(fx.res, with) = replacementCostUnits(fx.res, effects)
       /\ SameStrict(applyCardEffects(fx.res, fx.rank, with, repl),
                     applyCardEffects(fx.res, fx.rank, effects, repl))
       /\ SameSoft(applyCardEffectsSoft(fx.res, fx.rank, with),
                   applyCardEffectsSoft(fx.res, fx.rank, effects))

C33_ZeroEffectsAreNoOps ==
  FxStrictDone =>
    /\ Len(fx.effects) = 0 =>
         (fx.out.ok /\ fx.out.resources = fx.res /\ fx.out.rank = fx.rank)
    /\ ZeroEffectUnobservable(fx.effects, fx.repl)

(* the same for effect lists that are not empty *)
C33_ZeroEffectInNonEmptyList ==
  (FxStrictDone /\ Len(fx.effects) > 0) => ZeroEffectUnobservable(fx.effects, fx.repl)

----------------------------------------------------------------------------
(* C34: the draw at the head of a simulated turn changes the match as the  *)
(* live drawCard move does from the same state, with the drawer as current *)
(* player in the draw stage: same card popped, same soft applications,     *)
(* same discard, same stage; and the simulator draws only where the live   *)
(* move is accepted.                                                       *)
SimTurnDue == fx.phase = "sim" /\ fx.running /\ simLoopGuard(fx.m.turns, fx.maxTurns)

SimOrder == TableOrder(fx.players)

SimDrawer == SimOrder[fx.m.currentIdx + 1]

LiveDrawFromSim ==
  drawCard(fx.m.G, SimDrawer,
           [pid \in SeatsOf(SimOrder) |-> IF pid = SimDrawer THEN DRAW_STAGE ELSE IDLE_STAGE],
           SimOrder, SimDrawer)

C34_SimDrawIsLiveDraw ==
  (SimTurnDue /\ Len(fx.m.G.deck) > 0) =>
     /\ LiveDrawFromSim.result # INVALID_MOVE
     /\ simDraw(fx.m.G, SimOrder, SimDrawer).G = LiveDrawFromSim.G
     /\ simDraw(fx.m.G, SimOrder, SimDrawer).stage = LiveDrawFromSim.stage

(* the same where the live move is accepted *)
C34_SameDrawWhereAccepted ==
  (SimTurnDue /\ Len(fx.m.G.deck) > 0 /\ LiveDrawFromSim.result # INVALID_MOVE) =>
     /\ simDraw(fx.m.G, SimOrder, SimDrawer).G = LiveDrawFromSim.G
     /\ simDraw(fx.m.G, SimOrder, SimDrawer).stage = LiveDrawFromSim.stage

(* C39: in a simulated match every hand holds at most HAND_LIMIT cards at  *)
(* the end of every simulated turn.                                        *)
C39_SimHandWithinLimit ==
  (fx.phase = "sim" /\ fx.m.turns > 0) =>
     \A pid \in DOMAIN fx.m.G.hands : Len(fx.m.G.hands[pid]) <= HAND_LIMIT

----------------------------------------------------------------------------
(* C35: the live engine does not deadlock: in every reachable state in     *)
(* which the match is not over, at least one of drawCard, playCard,        *)
(* promote and pass is accepted from the current player.                   *)
SomeMoveAccepted ==
  \/ drawCard(G, currentPlayer, activePlayers, playOrder, currentPlayer).result # INVALID_MOVE
  \/ promote(G, currentPlayer, activePlayers, playOrder, currentPlayer).result # INVALID_MOVE
  \/ pass(G, currentPlayer, activePlayers, currentPlayer).result # INVALID_MOVE
  \/ \E a \in PlayArgsOf(currentPlayer) :
       playCard(G, currentPlayer, activePlayers, playOrder, currentPlayer,
                a.cardId, a.repl, a.target).result # INVALID_MOVE

C35_NoDeadlock == gameover = NoWinner => SomeMoveAccepted

----------------------------------------------------------------------------
(* C36: in every reachable state of a match, every rank of the ladder but  *)
(* the starting rank is held by at most rankSeatLimit(player count) seats, *)
(* however the seats got there (promote or rank effects of cards).         *)
HoldersOf(rankId) == {p \in Players : ranks[p] = rankId}

C36_SeatLimitEverywhere ==
  \A i \in 2..Len(getActiveRanks) :
    Cardinality(HoldersOf(getActiveRanks[i].id)) <= rankSeatLimit(Len(playOrder))

(* the same while the seats only move up by promote *)
C36_SeatLimitAfterPromote ==
  [][(last'.accepted /\ last'.move = "promote")
       => Cardinality(HoldersOf(ranks'[last'.player])) <= rankSeatLimit(Len(playOrder))]_vars

----------------------------------------------------------------------------
(* C37: inside soft application the strict attempt with the planned list   *)
(* either succeeds or is rejected before it has written anything: it never *)
(* throws, so the clamping fallback starts from the resources the target   *)
(* had before the call.                                                    *)
PlannedAttempt ==
  applyCardEffects(fx.res, fx.rank, fx.effects, planReplacementResources(fx.res, fx.effects).list)

C37_PlannedAttemptAllOrNothing ==
  (FxSoftDone /\ Len(fx.effects) > 0) =>
     /\ planReplacementResources(fx.res, fx.effects).ok =>
          /\ ~PlannedAttempt.threw
          /\ PlannedAttempt.ok \/ PlannedAttempt.resources = fx.res
          /\ PlannedAttempt.ok <=> fx.out.path = "strict"
     /\ fx.out.path = "fallback" => fx.out.start = fx.res

C37_Witness ==
  /\ FxSoftDone
  /\ planReplacementResources(fx.res, fx.effects).ok
  /\ Len(planReplacementResources(fx.res, fx.effects).list) > 0
  /\ ~PlannedAttempt.ok
  /\ fx.out.path = "fallback"
  /\ fx.out.resources # fx.res

----------------------------------------------------------------------------
(* C38: the state a simulated turn leaves is the state some sequence of    *)
(* live moves of the same seat leaves from the same state, each move       *)
(* accepted by the live engine: drawCard (when the deck is not empty),     *)
(* then promote and playCard as the stages allow, then pass.               *)
StagesWith(order, pid, stage) == [q \in SeatsOf(order) |-> IF q = pid THEN stage ELSE IDLE_STAGE]

(* the lists a caller may supply: no list longer than what the seat holds *)
(* and gains can be accepted                                              *)
RECURSIVE SumGains(_, _)
SumGains(effects, i) ==
  IF i > Len(effects) THEN 0
  ELSE (IF effects[i].resource # "rank" /\ effects[i].value > 0 THEN effects[i].value ELSE 0)
       + SumGains(effects, i + 1)

LiveLists(res, effects) ==
  IF replacementCostUnits(res, effects) > ResourceSum(res) + SumGains(effects, 1) THEN {<<>>}
  ELSE [1..replacementCostUnits(res, effects) -> Keys]

(* the states an accepted live playCard of the seat leaves *)
LivePlays(Gd, order, pid) ==
  IF getWinner(Gd, order) # "none" THEN {}
  ELSE {r.G : r \in {x \in {playCard(Gd, pid, StagesWith(order, pid, PLAY_STAGE), order, pid,
                                    Gd.hands[pid][i].id, repl, target) :
                             i \in 1..Len(Gd.hands[pid]),
                             repl \in UNION {LiveLists(Gd.resources[pid], Gd.hands[pid][j].effects) :
                                               j \in 1..Len(Gd.hands[pid])},
                             target \in SeatsOf(order)} :
                       x.result # INVALID_MOVE}}

(* the states an accepted live promote of the seat leaves *)
LivePromotes(Gd, order, pid) ==
  IF getWinner(Gd, order) # "none" THEN {}
  ELSE LET r == promote(Gd, pid, StagesWith(order, pid, PLAY_STAGE), order, pid)
       IN IF r.result = INVALID_MOVE THEN {}
          ELSE {r.G}

(* the states the play stage of a live turn can end in *)
LivePlayStage(Gd, order, pid) ==
  {Gd} \cup LivePlays(Gd, order, pid) \cup LivePromotes(Gd, order, pid)
       \cup UNION {LivePlays(Gp, order, pid) : Gp \in LivePromotes(Gd, order, pid)}

LiveTurns(Gd, order, pid) ==
  IF Len(Gd.deck) = 0 THEN LivePlayStage(Gd, order, pid)
  ELSE LET d == drawCard(Gd, pid, StagesWith(order, pid, DRAW_STAGE), order, pid)
       IN IF d.result = INVALID_MOVE THEN {}
          ELSE IF d.stage = END_STAGE THEN {d.G}
          ELSE LivePlayStage(d.G, order, pid)

(* the flags as the next turn.onBegin leaves them (the simulator keeps its *)
(* flag in a local variable)                                              *)
FlagsCleared(Gd) == [Gd EXCEPT !.promotedThisTurn = [q \in DOMAIN @ |-> FALSE]]

C38_SimTurnIsLiveTurn ==
  [][(SimTurnDue /\ fx'.m.turns = fx.m.turns + 1)
       => fx'.m.G \in {FlagsCleared(Gd) : Gd \in LiveTurns(fx.m.G, SimOrder, SimDrawer)}]_vars

----------------------------------------------------------------------------
(* C40: whenever the current player is in the draw stage the deck is not   *)
(* empty; an accepted drawCard takes exactly the top card off the deck,    *)
(* and no other move, accepted or not, changes the deck.                   *)
C40_DrawStageHasDeck ==
  /\ [](activePlayers[currentPlayer] = DRAW_STAGE => Len(deck) > 0)
  /\ [][IF last'.accepted /\ last'.move = "drawCard"
          THEN Len(deck) > 0 /\ deck' = SubSeq(deck, 1, Len(deck) - 1)
          ELSE deck' = deck]_vars

C40_Witness ==
  /\ last.accepted /\ last.move = "drawCard"
  /\ Len(deck) = 0
  /\ activePlayers[currentPlayer] = PLAY_STAGE
  /\ gameover = NoWinner

====
